---- MODULE Spec2Model ----
(***************************************************************************)
(* invrpt_fastapi: the per-branch sync pipeline (tasks.py, semaphore.py,   *)
(* utils.py, the /dibol/sync endpoint of main.py) and the DIBOL schema     *)
(* parser (dibol_parser.py), as state machines.                            *)
(*                                                                         *)
(* Scheduling.  Every handler is a coroutine of one asyncio event loop.    *)
(* A coroutine gives up the loop only where it awaits something that       *)
(* suspends.  task_sync_branch awaits get_keyed_semaphore, whose body has  *)
(* no await, and enters `async with semaphore` right after it has seen     *)
(* the semaphore unlocked, so acquire() returns without suspending; the    *)
(* body of the section calls only blocking functions (ftplib, the file     *)
(* system, the database loader).  Hence a run, once started, goes through  *)
(* to its end before any other coroutine of the loop takes a step.  The    *)
(* run is split into steps here to expose its intermediate states; the     *)
(* guard LoopFree keeps every other coroutine out while a run is between   *)
(* its first and its last step.  Between the endpoint's return and the     *)
(* start of its background task the framework sends the response, and      *)
(* other requests can be served there.                                     *)
(***************************************************************************)
EXTENDS Integers, Sequences, FiniteSets, TLC

\* ------------------------------------------------------------------ bounds
MaxReq == 2
MaxLines == 5
MaxCap == 1
MaxFiles == 4
MaxKeep == 2
MaxData == 4
MaxList == 2
MaxLineLen == 8
MaxCut == 2

\* --------------------------------------------------------------- constants
SEMAPHORE_LIMIT == 1

\* The textual forms of the branch number a client may put in the URL, and
\* the branches they denote.
BranchTexts == {"1", "01", "2"}
Branches == {1, 2}

\* int(branch_no)
ToInt(t) == CASE t = "1" -> 1 [] t = "01" -> 1 [] t = "2" -> 2

\* str(n) of a branch number
Str(n) == CASE n = 1 -> "1" [] n = 2 -> "2"

\* The files a working directory may hold: the download target
\* (save_folder / Path(remote_filename).name) and a file left by something
\* else (an earlier partial run, an operator).
Target == "target"
Leftover == "leftover"
WorkFiles == {Target, Leftover}
Contents == {"absent", "data", "partial"}

\* The outcomes of the remote steps of fetch_ftp_file.
FetchOutcomes == {"ok", "empty", "connect", "login", "cwd", "nlst", "retr"}

\* An archive directory found at startup: file names are numbers standing
\* for their rank in the order of Path comparison.
ArchiveSeed == {[name |-> 1, ctime |-> 2], [name |-> 2, ctime |-> 1],
                [name |-> 3, ctime |-> 1]}

VARIABLES
    keyed_semaphores,   \* semaphore.py: key -> value of its asyncio.Semaphore
    pc,                 \* request -> where its handler / background task is
    reqText,            \* request -> the branch_no path parameter
    reqResult,          \* request -> what the endpoint answered
    dirs,               \* branch -> directories that exist
    work,               \* branch -> file -> content, the working directory
    archive,            \* branch -> set of [name, ctime], the archive directory
    status,             \* branch -> content of msg/last_message.txt
    max_archive_files,  \* cfg['sync']['max_archive_files']
    statusReply,        \* the last answer of the status endpoint, and to what
    run                 \* the run in progress or, after its end, the last
                        \* one: its locals, the calls the sink got from it
                        \* and how its last call of cleanup_old_archives ended

syncVars == <<keyed_semaphores, pc, reqText, reqResult, dirs, work, archive,
              status, max_archive_files, statusReply, run>>

VARIABLES
    content,    \* the lines of the schema text read so far
    parser,     \* the DibolParser: records and current_record
    returned    \* whether parse_content has returned, and then what

parseVars == <<content, parser, returned>>

VARIABLES
    archive_dir,     \* the files of the directory cleanup_old_archives prunes
    archive_count,   \* its argument archive_count
    archive_is_dir,  \* whether archive_dir.is_dir()
    cleanup_pc,      \* where the call is: "start", "loop", "returned", or
                     \* the exception that ended it
    found,           \* its locals <<count, oldest>>
    archive_before,  \* the directory as it was when the call began
    cleanup_error    \* whether the call logged "Cleanup failed"

cleanupVars == <<archive_dir, archive_is_dir, archive_count, cleanup_pc, found,
                 archive_before, cleanup_error>>

VARIABLES
    schemas,     \* DibolDataParser.schemas: record name -> layout
    data_file,   \* the lines of the data file read so far
    file_state   \* parse_file: results, current_header, detail_line_number

dataVars == <<schemas, data_file, file_state>>

VARIABLES
    remote_filename,  \* ftp.remote_filename, the configured remote file
    file_list,        \* what client.nlst() returns
    retr_file,        \* the name in the RETR command, once it is built
    target            \* the local path below save_folder, once it is built

fetchVars == <<remote_filename, file_list, retr_file, target>>

VARIABLES
    call_pc,      \* a call of a DibolDataParser method: "start", "returned"
    call_line,    \* its argument line
    call_name,    \* its argument record_name
    call_type,    \* what identify_record_type returned
    call_record   \* what parse_line returned: no element for None

callVars == <<call_pc, call_line, call_name, call_type, call_record>>

VARIABLES
    invoice_headers,  \* the rows of the table invoice_headers
    invoice_details,  \* the rows of the table invoice_details
    db_clock,         \* CURRENT_TIMESTAMP of the last transaction
    load_pc,          \* a decode-and-load: <<pass, next step>>
    stored_once       \* the two tables as the first pass left them

storeVars == <<invoice_headers, invoice_details, db_clock, load_pc,
               stored_once>>

vars == <<syncVars, parseVars, cleanupVars, dataVars, fetchVars, callVars,
          storeVars>>

Requests == 1..MaxReq

\* ------------------------------------------------------------- semaphore.py

\* get_keyed_semaphore: the registry after the lookup (created lazily).
get_keyed_semaphore(sems, key) ==
    IF key \in DOMAIN sems THEN sems ELSE (key :> SEMAPHORE_LIMIT) @@ sems

\* asyncio.Semaphore.locked(), with no waiter ever queued.
locked(sems, key) == sems[key] = 0

acquire(sems, key) == [sems EXCEPT ![key] = @ - 1]

release(sems, key) == [sems EXCEPT ![key] = @ + 1]

\* `async with semaphore`: __aexit__ on leaving the section by an exception.
ExitOnErrorLeak(sems, key) == sems
ExitOnError(sems, key) == release(sems, key)

\* The key the endpoint looks up: str(branch_no) of the path parameter.
EndpointKey(text) == text

\* The key the background task looks up: str(branch_no) of the int.
TaskKeyShared(branch_no) == "1"
TaskKey(branch_no) == Str(branch_no)

\* ------------------------------------------------------------------ utils.py

Older(a, b) == a.ctime < b.ctime \/ (a.ctime = b.ctime /\ a.name < b.name)

\* find_oldest_file: <<count, oldest>> of a directory with files.
find_oldest_file(dir) ==
    <<Cardinality(dir), CHOOSE f \in dir : \A g \in dir \ {f} : Older(f, g)>>

\* The loop going on to the next file after an unlink raised OSError.
RECURSIVE CleanupRetry(_, _, _, _)
CleanupRetry(dir, keep_files, failAt, i) ==
    IF Cardinality(dir) > keep_files
    THEN CleanupRetry(dir \ {find_oldest_file(dir)[2]}, keep_files, failAt, i + 1)
    ELSE dir

\* The loop left after its first unlink ("normally, this loop iterates only
\* once").
CleanupOnce(dir, keep_files, failAt, i) ==
    IF Cardinality(dir) > keep_files /\ i # failAt
    THEN dir \ {find_oldest_file(dir)[2]}
    ELSE dir

\* cleanup_old_archives: the directory after pruning; the failAt-th unlink
\* raises OSError (0: none does), which ends the loop.
RECURSIVE CleanupLoop(_, _, _, _)
CleanupLoop(dir, keep_files, failAt, i) ==
    IF Cardinality(dir) > keep_files
    THEN IF i = failAt THEN dir
         ELSE CleanupLoop(dir \ {find_oldest_file(dir)[2]}, keep_files, failAt, i + 1)
    ELSE dir

cleanup_old_archives(dir, keep_files, failAt) ==
    IF keep_files <= 0 THEN dir ELSE CleanupLoop(dir, keep_files, failAt, 1)

\* Whether that call of cleanup_old_archives logged "Cleanup failed": the
\* failAt-th unlink was attempted.
CleanupFailed(dir, keep_files, failAt) ==
    keep_files > 0 /\ failAt >= 1 /\ Cardinality(dir) - keep_files >= failAt

\* The files an archive directory may hold and their st_ctime.
FileNames == 1..MaxFiles
Ctimes == {1, 2}

\* The st_ctime of a file whose stat() raises OSError.
Unreadable == 0

\* oldest_file = None
NoFile == [name |-> 0, ctime |-> 0]

\* The orders in which iterdir() may list a directory.
Listings(dir) ==
    {l \in [1..Cardinality(dir) -> dir] :
        \A i, j \in DOMAIN l : i # j => l[i] # l[j]}

\* find_oldest_file, the body of its loop for one entry, without the tie
\* on the creation time being decided by the name.
ScanStepFirstSeen(file_path, oldest_file) ==
    IF oldest_file = NoFile \/ file_path.ctime < oldest_file.ctime
    THEN file_path
    ELSE oldest_file

\* find_oldest_file, the body of its loop for one entry: oldest_file after
\* the entry (oldest_time is inf while oldest_file is None).
ScanStep(file_path, oldest_file) ==
    IF oldest_file = NoFile THEN file_path
    ELSE IF file_path.ctime = oldest_file.ctime
         THEN IF file_path.name < oldest_file.name THEN file_path
              ELSE oldest_file
         ELSE IF file_path.ctime < oldest_file.ctime THEN file_path
              ELSE oldest_file

RECURSIVE ScanFrom(_, _, _)
ScanFrom(listing, i, oldest_file) ==
    IF i > Len(listing) THEN oldest_file
    ELSE ScanFrom(listing, i + 1,
                  IF listing[i].ctime = Unreadable THEN oldest_file
                  ELSE ScanStep(listing[i], oldest_file))

\* find_oldest_file on a directory listed in the given order: every file
\* is counted, one whose stat() raises is passed over.
ScanOldest(listing) == <<Len(listing), ScanFrom(listing, 1, NoFile)>>

\* ------------------------------------------------------------------ state

NoRun == [req |-> 0, branch |-> 0, fetch |-> "none", msg |-> "none",
          download_file |-> FALSE, processed_count |-> 0, listed |-> {},
          todo |-> {}, decoded |-> {}, error |-> "none",
          headers |-> {}, details |-> {}, last_processed |-> 0,
          cleanup |-> "none"]

EmptyDir == [f \in WorkFiles |-> "absent"]

SyncInit ==
    /\ keyed_semaphores = <<>>
    /\ pc = [r \in Requests |-> "idle"]
    /\ reqText = [r \in Requests |-> "-"]
    /\ reqResult = [r \in Requests |-> "none"]
    /\ \E used \in BOOLEAN :
         /\ work = [b \in Branches |->
                      IF b = 1 /\ used THEN [EmptyDir EXCEPT ![Leftover] = "data"]
                      ELSE EmptyDir]
         /\ archive = [b \in Branches |->
                         IF b = 1 /\ used THEN ArchiveSeed ELSE {}]
    /\ dirs = [b \in Branches |->
                 (IF work[b][Leftover] # "absent" THEN {"save"} ELSE {})
                 \cup (IF archive[b] # {} THEN {"archive"} ELSE {})]
    /\ status = [b \in Branches |-> "none"]
    /\ max_archive_files \in 0..MaxCap
    /\ statusReply = [text |-> "-", status |-> "none"]
    /\ run = NoRun

\* The states of a run between its first and its last step.
MidRun == {"sem", "fetch", "files"}
InSection == {"fetch", "files"}

\* No run holds the event loop.
LoopFree == \A q \in Requests : pc[q] \notin MidRun

FilesIn(d) == {f \in WorkFiles : d[f] # "absent"}

\* ------------------------------------------------------------------ tasks.py

\* fetch_ftp_file on working directory d: what it leaves and returns.
\* target = FALSE is the None it returns; raised = TRUE when an exception
\* leaves the function (cwd and nlst stand outside every try; quit, in the
\* finally clause, may raise too).
fetch_ftp_file(d, outcome, quitFails) ==
    CASE outcome = "connect" ->
           [dir |-> d, target |-> FALSE, msg |-> "Error connecting to FTP",
            raised |-> FALSE]
      [] outcome = "login" ->
           [dir |-> d, target |-> FALSE, msg |-> "Error logging into FTP",
            raised |-> FALSE]
      [] outcome \in {"cwd", "nlst"} ->
           [dir |-> d, target |-> FALSE, msg |-> "OK", raised |-> TRUE]
      [] outcome = "retr" ->
           [dir |-> [d EXCEPT ![Target] = "partial"], target |-> TRUE,
            msg |-> "Error retrieving file from FTP", raised |-> quitFails]
      [] outcome = "empty" ->
           [dir |-> [d EXCEPT ![Target] = "absent"], target |-> FALSE,
            msg |-> "Got an zero sized file.", raised |-> quitFails]
      [] outcome = "ok" ->
           [dir |-> [d EXCEPT ![Target] = "data"], target |-> TRUE,
            msg |-> "OK", raised |-> quitFails]

\* The status file after `if download_file is None: write msg`.
StatusAfterFetch(old, res) == IF res.target THEN old ELSE res.msg

\* The working directory after a file was processed (the rename into the
\* archive is commented out in the source).
AfterProcessed(d, f) == d

\* The archive directory after a file was processed.
ArchiveAfterProcessed(dir, f) == dir

\* The status file at the end of the section, were "OK" written whatever
\* the count.
FinalStatusAlwaysOK(old, processed_count) == "OK"

\* The status file at the end of the section.
FinalStatus(old, processed_count) ==
    IF processed_count > 0 THEN "OK" ELSE "No files to process."

\* An exception that is noted and swallowed: the run goes on.
RaiseSwallowed(r, kind, newRun) ==
    /\ run' = [newRun EXCEPT !.error = kind]
    /\ UNCHANGED <<keyed_semaphores, pc>>

\* A run ends by an exception: the section is left, the task is over.
Raise(r, kind, newRun) ==
    /\ run' = [newRun EXCEPT !.error = kind, !.todo = {}]
    /\ keyed_semaphores' = ExitOnError(keyed_semaphores, TaskKey(run.branch))
    /\ pc' = [pc EXCEPT ![r] = "failed"]

\* main.py sync_branch, for a branch that is valid, active and has a host:
\* look the slot up, answer "locked" or queue the background task.
sync_branch(r, text) ==
    /\ LoopFree
    /\ pc[r] = "idle"
    /\ \A q \in Requests : q < r => pc[q] # "idle"
    /\ LET key == EndpointKey(text)
           sems == get_keyed_semaphore(keyed_semaphores, key)
       IN /\ keyed_semaphores' = sems
          /\ reqText' = [reqText EXCEPT ![r] = text]
          /\ IF locked(sems, key)
             THEN /\ reqResult' = [reqResult EXCEPT ![r] = "locked"]
                  /\ pc' = [pc EXCEPT ![r] = "rejected"]
             ELSE /\ reqResult' = [reqResult EXCEPT ![r] = "queued"]
                  /\ pc' = [pc EXCEPT ![r] = "queued"]
    /\ UNCHANGED <<dirs, work, archive, status, max_archive_files,
                   statusReply, run,
                   content, parser, returned, cleanupVars, dataVars,
                   fetchVars, callVars, storeVars>>

\* ResultSyncStatus.status of a lookup that found the slot locked or not,
\* created or not.
SyncStatus(isLocked, created) ==
    IF isLocked THEN "Pending" ELSE IF created THEN "Clear" ELSE "Done"

\* main.py status_sync_branch: look the slot up and answer.
status_sync_branch(text) ==
    /\ LoopFree
    /\ LET key == EndpointKey(text)
           created == key \notin DOMAIN keyed_semaphores
           sems == get_keyed_semaphore(keyed_semaphores, key)
       IN /\ keyed_semaphores' = sems
          /\ statusReply' = [text |-> text,
                             status |-> SyncStatus(locked(sems, key), created)]
    /\ UNCHANGED <<pc, reqText, reqResult, dirs, work, archive, status,
                   max_archive_files, run,
                   content, parser, returned, cleanupVars, dataVars,
                   fetchVars, callVars, storeVars>>

\* task_sync_branch, lines 97-116: the folders are made before the slot is
\* looked at.
task_start(r) ==
    /\ LoopFree
    /\ pc[r] = "queued"
    /\ LET b == ToInt(reqText[r])
       IN /\ dirs' = [dirs EXCEPT ![b] = {"save", "archive", "msg"}]
          /\ run' = [NoRun EXCEPT !.req = r, !.branch = b]
    /\ pc' = [pc EXCEPT ![r] = "sem"]
    /\ UNCHANGED <<keyed_semaphores, reqText, reqResult, work, archive, status,
                   max_archive_files, statusReply,
                   content, parser, returned, cleanupVars, dataVars,
                   fetchVars, callVars, storeVars>>

\* task_sync_branch, lines 118-124: return when the slot is held, else
\* enter the section.
task_semaphore(r) ==
    /\ pc[r] = "sem"
    /\ LET key == TaskKey(run.branch)
           sems == get_keyed_semaphore(keyed_semaphores, key)
       IN IF locked(sems, key)
          THEN /\ keyed_semaphores' = sems
               /\ pc' = [pc EXCEPT ![r] = "busy"]
          ELSE /\ keyed_semaphores' = acquire(sems, key)
               /\ pc' = [pc EXCEPT ![r] = "fetch"]
    /\ UNCHANGED <<reqText, reqResult, dirs, work, archive, status,
                   max_archive_files, statusReply, run,
                   content, parser, returned, cleanupVars, dataVars,
                   fetchVars, callVars, storeVars>>

\* task_sync_branch, lines 125-138: fetch, note a missing download in the
\* status file, list the working directory.
task_fetch(r, outcome, quitFails) ==
    /\ pc[r] = "fetch"
    /\ LET b == run.branch
           res == fetch_ftp_file(work[b], outcome, quitFails)
           fetched == [run EXCEPT !.fetch = outcome, !.msg = res.msg,
                                  !.download_file = res.target]
       IN /\ work' = [work EXCEPT ![b] = res.dir]
          /\ IF res.raised
             THEN /\ Raise(r, "transport", fetched)
                  /\ UNCHANGED status
             ELSE /\ status' = [status EXCEPT ![b] = StatusAfterFetch(@, res)]
                  /\ run' = [fetched EXCEPT
                               !.listed = FilesIn(res.dir),
                               !.todo = FilesIn(res.dir)]
                  /\ pc' = [pc EXCEPT ![r] = "files"]
                  /\ UNCHANGED keyed_semaphores
    /\ UNCHANGED <<reqText, reqResult, dirs, archive, max_archive_files,
                   statusReply,
                   content, parser, returned, cleanupVars, dataVars,
                   fetchVars, callVars, storeVars>>

\* The statements of the loop body that act on the sink and the archive,
\* were the pruning to come first.
LoopBodyPruningFirst == <<"cleanup_old_archives", "load_headers", "load_details">>

\* The statements of the loop body, lines 141-148, that act on the sink and
\* the archive, in their order.
LoopBody == <<"load_headers", "load_details", "cleanup_old_archives">>

Position(statement) == CHOOSE i \in DOMAIN LoopBody : LoopBody[i] = statement

\* The place of the statement that raises, past the end when none does.
RaisedAt(sinkOutcome) ==
    CASE sinkOutcome = "headers" -> Position("load_headers")
      [] sinkOutcome = "details" -> Position("load_details")
      [] sinkOutcome = "ok" -> Len(LoopBody) + 1

\* A statement is run when none before it raised, and returns when it is
\* run and does not raise.
Runs(statement, sinkOutcome) == Position(statement) <= RaisedAt(sinkOutcome)

Returns(statement, sinkOutcome) == Position(statement) < RaisedAt(sinkOutcome)

\* task_sync_branch, lines 138-148, one turn of the loop over parse_files:
\* decode file f, load its headers and details, prune the archive.
task_file(r, f, sinkOutcome, failAt) ==
    /\ pc[r] = "files"
    /\ f \in run.todo
    /\ LET b == run.branch
           rows == f
           decoded == [run EXCEPT !.decoded = @ \cup {f},
                                  !.processed_count = @ + 1,
                                  !.todo = @ \ {f}]
           loaded == [decoded EXCEPT
                        !.headers = IF Returns("load_headers", sinkOutcome)
                                    THEN @ \cup {rows} ELSE @,
                        !.details = IF Returns("load_details", sinkOutcome)
                                    THEN @ \cup {rows} ELSE @]
           pruning == Runs("cleanup_old_archives", sinkOutcome)
       IN /\ work' = [work EXCEPT ![b] =
                        IF pruning THEN AfterProcessed(@, f) ELSE @]
          /\ archive' = [archive EXCEPT ![b] =
                 IF pruning
                 THEN cleanup_old_archives(ArchiveAfterProcessed(@, f),
                                           max_archive_files, failAt)
                 ELSE @]
          /\ IF sinkOutcome = "ok"
             THEN /\ run' = [loaded EXCEPT
                        !.cleanup =
                            IF CleanupFailed(ArchiveAfterProcessed(archive[b], f),
                                             max_archive_files, failAt)
                            THEN "error" ELSE "done"]
                  /\ UNCHANGED <<keyed_semaphores, pc>>
             ELSE Raise(r, "sink", loaded)
    /\ UNCHANGED <<reqText, reqResult, dirs, status, max_archive_files,
                   statusReply,
                   content, parser, returned, cleanupVars, dataVars,
                   fetchVars, callVars, storeVars>>

\* task_sync_branch, lines 150-160 and the end of the section.
task_finish(r, lastFails) ==
    /\ pc[r] = "files"
    /\ run.todo = {}
    /\ LET b == run.branch
       IN IF run.processed_count > 0 /\ lastFails
          THEN /\ Raise(r, "sink", run)
               /\ UNCHANGED status
          ELSE /\ run' = [run EXCEPT !.last_processed =
                            IF run.processed_count > 0 THEN @ + 1 ELSE @]
               /\ status' = [status EXCEPT ![b] =
                               FinalStatus(@, run.processed_count)]
               /\ keyed_semaphores' = release(keyed_semaphores, TaskKey(b))
               /\ pc' = [pc EXCEPT ![r] = "done"]
    /\ UNCHANGED <<reqText, reqResult, dirs, work, archive, max_archive_files,
                   statusReply,
                   content, parser, returned, cleanupVars, dataVars,
                   fetchVars, callVars, storeVars>>

\* ------------------------------------------------------------ dibol_parser.py
\* Text is a sequence of one-character strings.

WS == {" ", "\t", "\n", "\r"}
Digits == {"0", "1", "2", "3", "4", "5", "6", "7", "8", "9"}

DigitVal(c) ==
    CASE c = "0" -> 0 [] c = "1" -> 1 [] c = "2" -> 2 [] c = "3" -> 3
      [] c = "4" -> 4 [] c = "5" -> 5 [] c = "6" -> 6 [] c = "7" -> 7
      [] c = "8" -> 8 [] c = "9" -> 9

DigitChar(n) ==
    CASE n = 0 -> "0" [] n = 1 -> "1" [] n = 2 -> "2" [] n = 3 -> "3"
      [] n = 4 -> "4" [] n = 5 -> "5" [] n = 6 -> "6" [] n = 7 -> "7"
      [] n = 8 -> "8" [] n = 9 -> "9"

\* int(s) of a non-empty run of digits
RECURSIVE ParseInt(_)
ParseInt(s) ==
    IF s = <<>> THEN 0
    ELSE 10 * ParseInt(SubSeq(s, 1, Len(s) - 1)) + DigitVal(s[Len(s)])

\* str(n), n >= 0
RECURSIVE IntToStr(_)
IntToStr(n) ==
    IF n < 10 THEN <<DigitChar(n)>>
    ELSE Append(IntToStr(n \div 10), DigitChar(n % 10))

\* str.lstrip(), str.rstrip(), str.strip()
RECURSIVE LStrip(_)
LStrip(s) == IF s # <<>> /\ s[1] \in WS THEN LStrip(Tail(s)) ELSE s

RECURSIVE RStrip(_)
RStrip(s) ==
    IF s # <<>> /\ s[Len(s)] \in WS THEN RStrip(SubSeq(s, 1, Len(s) - 1)) ELSE s

Strip(s) == RStrip(LStrip(s))

\* str.rstrip(c)
RECURSIVE RStripChar(_, _)
RStripChar(s, c) ==
    IF s # <<>> /\ s[Len(s)] = c THEN RStripChar(SubSeq(s, 1, Len(s) - 1), c)
    ELSE s

\* str.startswith(p)
StartsWith(s, p) == Len(s) >= Len(p) /\ SubSeq(s, 1, Len(p)) = p

\* The places where p occurs in s, and `p in s`.
Occurrences(s, p) ==
    {i \in 1..(Len(s) - Len(p) + 1) : SubSeq(s, i, i + Len(p) - 1) = p}

Contains(s, p) == Occurrences(s, p) # {}

Min(S) == CHOOSE x \in S : \A y \in S : x <= y

Greatest(S) == CHOOSE x \in S : \A y \in S : y <= x

\* str.split(c, 1): one part when c is not in s, else the text before the
\* first c and the text after it.
SplitOnce(s, c) ==
    LET at == {i \in 1..Len(s) : s[i] = c}
    IN IF at = {} THEN <<s>>
       ELSE <<SubSeq(s, 1, Min(at) - 1), SubSeq(s, Min(at) + 1, Len(s))>>

\* str.split(): the runs of non-whitespace characters.
RECURSIVE SplitWS(_)
SplitWS(s) ==
    LET t == LStrip(s)
        ends == {i \in 1..Len(t) : t[i] \in WS}
        n == IF ends = {} THEN Len(t) ELSE Min(ends) - 1
    IN IF t = <<>> THEN <<>>
       ELSE <<SubSeq(t, 1, n)>> \o SplitWS(SubSeq(t, n + 1, Len(t)))

\* The length of the longest run of digits that starts s.
RECURSIVE DigitRun(_)
DigitRun(s) == IF s # <<>> /\ s[1] \in Digits THEN 1 + DigitRun(Tail(s)) ELSE 0

\* re.match(r'(\d*)([ADX])(\d+)', type_spec): <<>> for no match, else
\* <<group 1, group 2, group 3>>.
TypeMatch(type_spec) ==
    LET k == DigitRun(type_spec)
        rest == SubSeq(type_spec, k + 2, Len(type_spec))
    IN IF Len(type_spec) >= k + 2 /\ type_spec[k + 1] \in {"A", "D", "X"}
          /\ DigitRun(rest) >= 1
       THEN <<SubSeq(type_spec, 1, k), type_spec[k + 1],
              SubSeq(rest, 1, DigitRun(rest))>>
       ELSE <<>>

\* The places where r'\d{3}-\d{3}' matches in s.
PositionMatches(s) ==
    {i \in 1..(Len(s) - 6) :
        /\ \A j \in {i, i + 1, i + 2, i + 4, i + 5, i + 6} : s[j] \in Digits
        /\ s[i + 3] = "-"}

\* _extract_positions: re.search(r'(\d{3})-(\d{3})', comment)
_extract_positions(comment) ==
    LET at == PositionMatches(comment)
    IN IF at = {} THEN <<0, 0>>
       ELSE <<ParseInt(SubSeq(comment, Min(at), Min(at) + 2)),
              ParseInt(SubSeq(comment, Min(at) + 4, Min(at) + 6))>>

\* re.sub(r'\d{3}-\d{3}', '', comment)
RECURSIVE RemovePositions(_)
RemovePositions(s) ==
    LET at == PositionMatches(s)
    IN IF at = {} THEN s
       ELSE SubSeq(s, 1, Min(at) - 1)
            \o RemovePositions(SubSeq(s, Min(at) + 7, Len(s)))

\* The device number of a RECORD line's comment; -1 stands for None.
DeviceNo(comment) ==
    LET key == <<"D", "E", "V", "N", "O", "=">>
        at == {i \in Occurrences(comment, key) :
                 DigitRun(SubSeq(comment, i + 6, Len(comment))) >= 1}
    IN IF at = {} THEN -1
       ELSE LET rest == SubSeq(comment, Min(at) + 6, Len(comment))
            IN ParseInt(SubSeq(rest, 1, DigitRun(rest)))

KwRecord == <<"R", "E", "C", "O", "R", "D">>

\* The parser's state: self.records and self.current_record (a sequence of
\* no element for None, of one for a record).
ParserStart == [records |-> <<>>, current_record |-> <<>>]

DibolRecord(name, overlay, devno) ==
    [record_name |-> name, is_overlay |-> overlay, fields |-> <<>>,
     device_no |-> devno]

\* _parse_record_line, were the open record saved whether or not it has
\* fields.
ParseRecordLineSavingEmpty(st, line, comment) ==
    LET parts == SplitWS(Strip(line))
        open == st.current_record
    IN IF Len(parts) >= 2
       THEN [records |-> IF open # <<>>
                         THEN Append(st.records, open[1]) ELSE st.records,
             current_record |->
                <<DibolRecord(RStripChar(parts[2], ","),
                              Contains(line, <<",", "X">>)
                                \/ Contains(line, <<",", " ", "X">>),
                              DeviceNo(comment))>>]
       ELSE IF Contains(line, KwRecord \o <<",", "X">>)
               \/ Contains(line, KwRecord \o <<",", " ", "X">>)
            THEN [st EXCEPT !.current_record =
                    IF open = <<>> THEN open
                    ELSE <<[open[1] EXCEPT !.is_overlay = TRUE]>>]
            ELSE st

\* _parse_record_line, were a named declaration to begin the new record
\* without saving the open one.
ParseRecordLineDropping(st, line, comment) ==
    LET parts == SplitWS(Strip(line))
        open == st.current_record
    IN IF Len(parts) >= 2
       THEN [st EXCEPT !.current_record =
                <<DibolRecord(RStripChar(parts[2], ","),
                              Contains(line, <<",", "X">>)
                                \/ Contains(line, <<",", " ", "X">>),
                              DeviceNo(comment))>>]
       ELSE IF Contains(line, KwRecord \o <<",", "X">>)
               \/ Contains(line, KwRecord \o <<",", " ", "X">>)
            THEN [st EXCEPT !.current_record =
                    IF open = <<>> THEN open
                    ELSE <<[open[1] EXCEPT !.is_overlay = TRUE]>>]
            ELSE st

\* _parse_record_line, were the nameless overlay line to finalize the open
\* record as a named declaration does.
ParseRecordLineFinalizing(st, line, comment) ==
    LET parts == SplitWS(Strip(line))
        open == st.current_record
    IN IF Len(parts) >= 2
       THEN [records |-> IF open # <<>> /\ open[1].fields # <<>>
                         THEN Append(st.records, open[1]) ELSE st.records,
             current_record |->
                <<DibolRecord(RStripChar(parts[2], ","),
                              Contains(line, <<",", "X">>)
                                \/ Contains(line, <<",", " ", "X">>),
                              DeviceNo(comment))>>]
       ELSE IF Contains(line, KwRecord \o <<",", "X">>)
               \/ Contains(line, KwRecord \o <<",", " ", "X">>)
            THEN [records |-> IF open # <<>> /\ open[1].fields # <<>>
                              THEN Append(st.records, open[1]) ELSE st.records,
                  current_record |->
                    IF open = <<>> THEN open
                    ELSE <<[open[1] EXCEPT !.is_overlay = TRUE]>>]
            ELSE st

\* _parse_record_line
_parse_record_line(st, line, comment) ==
    LET parts == SplitWS(Strip(line))
        open == st.current_record
    IN IF Len(parts) >= 2
       THEN [records |-> IF open # <<>> /\ open[1].fields # <<>>
                         THEN Append(st.records, open[1]) ELSE st.records,
             current_record |->
                <<DibolRecord(RStripChar(parts[2], ","),
                              Contains(line, <<",", "X">>)
                                \/ Contains(line, <<",", " ", "X">>),
                              DeviceNo(comment))>>]
       ELSE IF Contains(line, KwRecord \o <<",", "X">>)
               \/ Contains(line, KwRecord \o <<",", " ", "X">>)
            THEN [st EXCEPT !.current_record =
                    IF open = <<>> THEN open
                    ELSE <<[open[1] EXCEPT !.is_overlay = TRUE]>>]
            ELSE st

\* _parse_field_line, were the trailing digits the scale of every type.
FieldOfScalingAll(line, comment) ==
    LET parts == SplitOnce(Strip(line), ",")
    IN IF Strip(line) = <<>> \/ Len(parts) # 2 THEN <<>>
       ELSE LET field_name == Strip(parts[1])
                m == TypeMatch(Strip(parts[2]))
                pos == _extract_positions(comment)
            IN IF m = <<>> THEN <<>>
               ELSE <<[field_name |->
                         IF field_name # <<>> THEN field_name
                         ELSE IF pos[1] # 0
                              THEN <<"F", "I", "L", "L", "E", "R", "_">>
                                   \o IntToStr(pos[1]) \o <<"_">>
                                   \o IntToStr(pos[2])
                              ELSE <<"F", "I", "L", "L", "E", "R">>,
                       data_type |-> m[2],
                       length |-> IF m[1] # <<>> THEN ParseInt(m[1])
                                  ELSE ParseInt(m[3]),
                       decimals |-> IF m[1] # <<>>
                                    THEN ParseInt(m[3]) ELSE 0,
                       start_pos |-> pos[1],
                       end_pos |-> pos[2],
                       comment |-> Strip(RemovePositions(comment))]>>

\* _parse_field_line: <<>> when the line adds no field, else the field.
FieldOf(line, comment) ==
    LET parts == SplitOnce(Strip(line), ",")
    IN IF Strip(line) = <<>> \/ Len(parts) # 2 THEN <<>>
       ELSE LET field_name == Strip(parts[1])
                m == TypeMatch(Strip(parts[2]))
                pos == _extract_positions(comment)
            IN IF m = <<>> THEN <<>>
               ELSE <<[field_name |->
                         IF field_name # <<>> THEN field_name
                         ELSE IF pos[1] # 0
                              THEN <<"F", "I", "L", "L", "E", "R", "_">>
                                   \o IntToStr(pos[1]) \o <<"_">>
                                   \o IntToStr(pos[2])
                              ELSE <<"F", "I", "L", "L", "E", "R">>,
                       data_type |-> m[2],
                       length |-> IF m[1] # <<>> THEN ParseInt(m[1])
                                  ELSE ParseInt(m[3]),
                       decimals |-> IF m[1] # <<>> /\ m[2] = "D"
                                    THEN ParseInt(m[3]) ELSE 0,
                       start_pos |-> pos[1],
                       end_pos |-> pos[2],
                       comment |-> Strip(RemovePositions(comment))]>>

\* _parse_field_line, were a line that is no field declaration to end the
\* open record.
ParseFieldLineClosing(st, line, comment) ==
    IF st.current_record = <<>> THEN st
    ELSE IF FieldOf(line, comment) = <<>>
         THEN [st EXCEPT !.current_record = <<>>]
         ELSE [st EXCEPT !.current_record[1].fields =
                            Append(@, FieldOf(line, comment)[1])]

_parse_field_line(st, line, comment) ==
    IF st.current_record = <<>> \/ FieldOf(line, comment) = <<>> THEN st
    ELSE [st EXCEPT !.current_record[1].fields =
                       Append(@, FieldOf(line, comment)[1])]

\* One turn of the loop of parse_content.
IsSkipped(line) == Strip(line) = <<>> \/ StartsWith(Strip(line), <<";">>)

CodePart(line) == SplitOnce(line, ";")[1]

CommentPart(line) ==
    IF Len(SplitOnce(line, ";")) > 1 THEN Strip(SplitOnce(line, ";")[2]) ELSE <<>>

IsRecordLine(line) == StartsWith(Strip(CodePart(line)), KwRecord)

IsFieldLine(line) ==
    /\ ~IsRecordLine(line)
    /\ \/ StartsWith(CodePart(line), <<"\t">>)
       \/ StartsWith(CodePart(line), <<" ">>)

ParseLine(st, line) ==
    IF IsSkipped(line) THEN st
    ELSE IF IsRecordLine(line)
         THEN _parse_record_line(st, CodePart(line), CommentPart(line))
         ELSE IF IsFieldLine(line)
              THEN _parse_field_line(st, CodePart(line), CommentPart(line))
              ELSE st

\* What parse_content returns once the loop is over.
ParseResult(st) == st.records

\* DibolDataParser.__init__: {r.record_name: r for r in schema}
Schemas(schema) ==
    [n \in {schema[i].record_name : i \in DOMAIN schema} |->
        schema[CHOOSE i \in DOMAIN schema :
                 /\ schema[i].record_name = n
                 /\ \A j \in DOMAIN schema :
                      schema[j].record_name = n => j <= i]]

\* str.lower(), character by character
LowerChar(c) ==
    CASE c = "A" -> "a" [] c = "B" -> "b" [] c = "C" -> "c" [] c = "D" -> "d"
      [] c = "E" -> "e" [] c = "F" -> "f" [] c = "G" -> "g" [] c = "H" -> "h"
      [] c = "I" -> "i" [] c = "J" -> "j" [] c = "K" -> "k" [] c = "L" -> "l"
      [] c = "M" -> "m" [] c = "N" -> "n" [] c = "O" -> "o" [] c = "P" -> "p"
      [] c = "Q" -> "q" [] c = "R" -> "r" [] c = "S" -> "s" [] c = "T" -> "t"
      [] c = "U" -> "u" [] c = "V" -> "v" [] c = "W" -> "w" [] c = "X" -> "x"
      [] c = "Y" -> "y" [] c = "Z" -> "z"
      [] OTHER -> c

Lower(s) == [i \in DOMAIN s |-> LowerChar(s[i])]

\* line[start:end] of Python, start and end counted from 0, a negative
\* index counted from the end.
PySlice(s, start, end) ==
    LET n == Len(s)
        from == IF start < 0 THEN (IF n + start < 0 THEN 0 ELSE n + start)
                ELSE (IF start > n THEN n ELSE start)
        to == IF end < 0 THEN (IF n + end < 0 THEN 0 ELSE n + end)
              ELSE (IF end > n THEN n ELSE end)
    IN SubSeq(s, from + 1, to)

\* int(value) of a stripped text: <<>> for ValueError, else <<n>>.  The
\* accepted texts are an optional sign and digits, single underscores
\* allowed between digits.
PyInt(value) ==
    LET signed == value # <<>> /\ value[1] \in {"+", "-"}
        body == IF signed THEN Tail(value) ELSE value
        digits == SelectSeq(body, LAMBDA c : c # "_")
        wellFormed ==
            /\ body # <<>>
            /\ \A i \in DOMAIN body : body[i] \in Digits \cup {"_"}
            /\ body[1] # "_" /\ body[Len(body)] # "_"
            /\ \A i \in 1..(Len(body) - 1) : ~(body[i] = "_" /\ body[i + 1] = "_")
    IN IF ~wellFormed THEN <<>>
       ELSE <<IF signed /\ value[1] = "-" THEN 0 - ParseInt(digits)
              ELSE ParseInt(digits)>>

RECURSIVE Exp10(_)
Exp10(n) == IF n = 0 THEN 1 ELSE 10 * Exp10(n - 1)

\* A number of a decoded record: the int n is Num(n, 1), the float
\* n / 10 ** d is Num(n, 10 ** d).
Num(n, den) == [num |-> n, den |-> den]

\* A dict: d[k] = v, and d.get(k, default).
Put(d, k, v) == [x \in DOMAIN d \cup {k} |-> IF x = k THEN v ELSE d[x]]

Get(d, k, default) == IF k \in DOMAIN d THEN d[k] ELSE default

EmptyDict == <<>>

\* identify_record_type, were the record code looked at before the end
\* marker.
IdentifyCodeFirst(line) ==
    IF Len(line) < 8 THEN "None"
    ELSE IF StartsWith(line, <<" ", " ", " ", " ", " ", " ", " ", " ">>)
         THEN "FILE_HEADER"
         ELSE CASE line[8] = "0" -> "INVHDR,X"
                [] line[8] = "1" -> "INVPOR,X"
                [] line[8] = "2" -> "INVDTL"
                [] OTHER -> IF StartsWith(Strip(line), <<"]">>)
                            THEN "END_MARKER" ELSE "None"

\* DibolDataParser.identify_record_type; "None" stands for None.
identify_record_type(line) ==
    IF Len(line) < 8 THEN "None"
    ELSE IF StartsWith(line, <<" ", " ", " ", " ", " ", " ", " ", " ">>)
         THEN "FILE_HEADER"
         ELSE IF StartsWith(Strip(line), <<"]">>) THEN "END_MARKER"
              ELSE CASE line[8] = "0" -> "INVHDR,X"
                     [] line[8] = "1" -> "INVPOR,X"
                     [] line[8] = "2" -> "INVDTL"
                     [] OTHER -> "None"

\* The record names identify_record_type returns, as the keys of
\* self.schemas.
TypeName(record_type) ==
    CASE record_type = "INVHDR,X" -> <<"I", "N", "V", "H", "D", "R", ",", "X">>
      [] record_type = "INVPOR,X" -> <<"I", "N", "V", "P", "O", "R", ",", "X">>
      [] record_type = "INVDTL" -> <<"I", "N", "V", "D", "T", "L">>

\* parse_line, lines 286-292, were a line that ends inside the field to
\* give what it has of it.
RawValuePartial(line, field) ==
    Strip(PySlice(line, field.start_pos - 1, field.end_pos))

\* parse_line, lines 286-292, were start_pos taken as counted from 0.
RawValueFromStartPos(line, field) ==
    IF field.end_pos > Len(line) THEN <<>>
    ELSE Strip(PySlice(line, field.start_pos, field.end_pos))

\* parse_line, lines 286-292: the text of the field, '' when the line ends
\* before the field does.
RawValue(line, field) ==
    LET start == field.start_pos - 1
        end == field.end_pos
    IN IF end > Len(line) THEN <<>>
       ELSE Strip(PySlice(line, start, end))

\* parse_line, lines 300-303, were the decimals left out of account.
Unscaled(int_val, decimals) == Num(int_val, 1)

\* parse_line, lines 300-303: int_val / (10 ** decimals), or int_val.
Scaled(int_val, decimals) ==
    IF decimals > 0 THEN Num(int_val, Exp10(decimals)) ELSE Num(int_val, 1)

\* The body of the loop, were a key stored once never stored again.
DecodeFieldKeepingFirst(record, line, field) ==
    LET value == RawValue(line, field)
        int_val == IF value = <<>> THEN <<0>> ELSE PyInt(value)
        key == Lower(field.field_name)
    IN IF key \in DOMAIN record THEN record
       ELSE CASE field.data_type = "A" -> Put(record, key, value)
              [] field.data_type = "D" ->
                   IF int_val = <<>> THEN Put(record, key, Num(0, 1))
                   ELSE Put(record, key, Scaled(int_val[1], field.decimals))
              [] OTHER -> record

\* DibolDataParser.parse_line, the body of its loop: the record after the
\* field.
DecodeField(record, line, field) ==
    LET value == RawValue(line, field)
        int_val == IF value = <<>> THEN <<0>> ELSE PyInt(value)
        key == Lower(field.field_name)
    IN CASE field.data_type = "A" -> Put(record, key, value)
         [] field.data_type = "D" ->
              IF int_val = <<>> THEN Put(record, key, Num(0, 1))
              ELSE Put(record, key, Scaled(int_val[1], field.decimals))
         [] OTHER -> record

RECURSIVE DecodeFields(_, _, _, _)
DecodeFields(record, line, fields, i) ==
    IF i > Len(fields) THEN record
    ELSE DecodeFields(DecodeField(record, line, fields[i]), line, fields, i + 1)

\* DibolDataParser.parse_line: <<>> for None, else <<the record>>.
DecodeLine(index, line, record_name) ==
    IF record_name \notin DOMAIN index THEN <<>>
    ELSE <<DecodeFields(EmptyDict, line, index[record_name].fields, 1)>>

\* `if record:` of parse_file: neither None nor an empty dict.
Truthy(record) == record # <<>> /\ DOMAIN record[1] # {}

\* The keys parse_file reads from a header and writes into a detail.
K ==
    [ivhnum |-> <<"i", "v", "h", "n", "u", "m">>,
     ivhdat |-> <<"i", "v", "h", "d", "a", "t">>,
     ivhcus |-> <<"i", "v", "h", "c", "u", "s">>,
     invnum |-> <<"i", "n", "v", "n", "u", "m">>,
     invdat |-> <<"i", "n", "v", "d", "a", "t">>,
     invcus |-> <<"i", "n", "v", "c", "u", "s">>,
     invlin |-> <<"i", "n", "v", "l", "i", "n">>]

\* parse_file before its loop.
FileStart ==
    [results |-> [headers |-> <<>>, details |-> <<>>, po_records |-> <<>>],
     current_header |-> <<>>, detail_line_number |-> 0]

\* detail_line_number after a header, were the counter to run on.
CounterKept(detail_line_number) == detail_line_number

\* detail_line_number after a header: "Reset line counter".
CounterAfterHeader(detail_line_number) == 0

\* parse_file, one turn of its loop.
ParseFileLine(index, st, line) ==
    LET record_type == identify_record_type(line)
    IN IF record_type \notin {"INVHDR,X", "INVDTL", "INVPOR,X"} THEN st
       ELSE LET record == DecodeLine(index, line, TypeName(record_type))
            IN CASE record_type = "INVHDR,X" ->
                      IF Truthy(record)
                      THEN [results |-> [st.results EXCEPT
                                           !.headers = Append(@, record[1])],
                            current_header |->
                              <<[invoice_number |-> Get(record[1], K.ivhnum, <<>>),
                                 invoice_date |-> Get(record[1], K.ivhdat, <<>>),
                                 customer_number |->
                                     Get(record[1], K.ivhcus, Num(0, 1))]>>,
                            detail_line_number |->
                              CounterAfterHeader(st.detail_line_number)]
                      ELSE st
                 [] record_type = "INVDTL" ->
                      IF Truthy(record) /\ st.current_header # <<>>
                      THEN LET n == st.detail_line_number + 1
                               h == st.current_header[1]
                               decorated ==
                                 Put(Put(Put(Put(record[1],
                                     K.invnum, h.invoice_number),
                                     K.invdat, h.invoice_date),
                                     K.invcus, h.customer_number),
                                     K.invlin, Num(n, 1))
                           IN [st EXCEPT
                                 !.detail_line_number = n,
                                 !.results.details = Append(@, decorated)]
                      ELSE st
                 [] record_type = "INVPOR,X" ->
                      IF Truthy(record)
                      THEN [st EXCEPT !.results.po_records = Append(@, record[1])]
                      ELSE st

\* ------------------------------------------- tasks.py, the remote file name

\* The configured remote file names and the entries a listing may hold,
\* with the characters of each.
RemoteFilenames == {"out/INVOICE.DAT", "out/invoice.dat", "Inv.x"}
ListedNames == {"INVOICE.DAT", "Invoice_01.dat", "other.txt", "inv.x"}

NameChars(name) ==
    CASE name = "out/INVOICE.DAT" ->
           <<"o", "u", "t", "/", "I", "N", "V", "O", "I", "C", "E", ".", "D", "A", "T">>
      [] name = "out/invoice.dat" ->
           <<"o", "u", "t", "/", "i", "n", "v", "o", "i", "c", "e", ".", "d", "a", "t">>
      [] name = "Inv.x" ->
           <<"I", "n", "v", ".", "x">>
      [] name = "INVOICE.DAT" ->
           <<"I", "N", "V", "O", "I", "C", "E", ".", "D", "A", "T">>
      [] name = "Invoice_01.dat" ->
           <<"I", "n", "v", "o", "i", "c", "e", "_", "0", "1", ".", "d", "a", "t">>
      [] name = "other.txt" ->
           <<"o", "t", "h", "e", "r", ".", "t", "x", "t">>
      [] name = "inv.x" ->
           <<"i", "n", "v", ".", "x">>

\* Path(p).name and Path(p).parent of a path without a trailing slash.
PathName(p) ==
    LET at == {i \in DOMAIN p : p[i] = "/"}
    IN IF at = {} THEN p ELSE SubSeq(p, Greatest(at) + 1, Len(p))

\* Path(name).stem: the name up to its last dot, the whole name when the
\* last dot is its first or its last character.
PathStem(name) ==
    LET dots == {i \in DOMAIN name : name[i] = "."}
    IN IF dots = {} \/ Greatest(dots) = 1 \/ Greatest(dots) = Len(name)
       THEN name
       ELSE SubSeq(name, 1, Greatest(dots) - 1)

\* fetch_ftp_file, lines 57-67: the name put in the RETR command.
RemoteFile(configured, listing) ==
    LET remote_file == Lower(PathName(configured))
        fname == PathStem(remote_file)
        hits == {i \in DOMAIN listing : StartsWith(Lower(listing[i]), fname)}
    IN IF hits # {} THEN listing[Min(hits)] ELSE remote_file

\* fetch_ftp_file, line 55: the name of target below save_folder.
TargetName(configured) == PathName(configured)

\* ------------------------------------------------- the texts that are read

\* The lines a schema text is made of, and the characters of each.
SchemaLines ==
    {"RECORD INVHDR,X",
     "\tIVHNUM ,A6  ; 001-006",
     "RECORD INVDTL ; DEVNO=12",
     "RECORD INVPOR,X",
     "RECORD,X",
     "  ,7D2 ;amount 007-013",
     "; 001-006 note",
     "\tIVHBAD A6"}

Chars(line) ==
    CASE line = "RECORD INVHDR,X" ->
           <<"R", "E", "C", "O", "R", "D", " ", "I", "N", "V", "H", "D", "R",
             ",", "X">>
      [] line = "\tIVHNUM ,A6  ; 001-006" ->
           <<"\t", "I", "V", "H", "N", "U", "M", " ", ",", "A", "6", " ",
             " ", ";", " ", "0", "0", "1", "-", "0", "0", "6">>
      [] line = "RECORD INVDTL ; DEVNO=12" ->
           <<"R", "E", "C", "O", "R", "D", " ", "I", "N", "V", "D", "T", "L",
             " ", ";", " ", "D", "E", "V", "N", "O", "=", "1", "2">>
      [] line = "RECORD INVPOR,X" ->
           <<"R", "E", "C", "O", "R", "D", " ", "I", "N", "V", "P", "O", "R",
             ",", "X">>
      [] line = "RECORD,X" ->
           <<"R", "E", "C", "O", "R", "D", ",", "X">>
      [] line = "  ,7D2 ;amount 007-013" ->
           <<" ", " ", ",", "7", "D", "2", " ", ";", "a", "m", "o", "u", "n",
             "t", " ", "0", "0", "7", "-", "0", "1", "3">>
      [] line = "; 001-006 note" ->
           <<";", " ", "0", "0", "1", "-", "0", "0", "6", " ", "n", "o", "t",
             "e">>
      [] line = "\tINVITM ,A6 ; 001-006" ->
           <<"\t", "I", "N", "V", "I", "T", "M", " ", ",", "A", "6", " ",
             ";", " ", "0", "0", "1", "-", "0", "0", "6">>
      [] line = "\tINVQTY ,D2 ; 009-010" ->
           <<"\t", "I", "N", "V", "Q", "T", "Y", " ", ",", "D", "2", " ",
             ";", " ", "0", "0", "9", "-", "0", "1", "0">>
      [] line = "\tIVHBAD ,Q6" ->
           <<"\t", "I", "V", "H", "B", "A", "D", " ", ",", "Q", "6">>
      [] line = "\tIVHBAD A6" ->
           <<"\t", "I", "V", "H", "B", "A", "D", " ", "A", "6">>
      [] line = "RECORD ,X" ->
           <<"R", "E", "C", "O", "R", "D", " ", ",", "X">>
      [] line = "\tIVHREV ,A6 ; 020-010" ->
           <<"\t", "I", "V", "H", "R", "E", "V", " ", ",", "A", "6", " ",
             ";", " ", "0", "2", "0", "-", "0", "1", "0">>
      [] line = "\tIVHNOP ,A6 ; no range" ->
           <<"\t", "I", "V", "H", "N", "O", "P", " ", ",", "A", "6", " ",
             ";", " ", "n", "o", " ", "r", "a", "n", "g", "e">>
      [] line = "RECORD, X" ->
           <<"R", "E", "C", "O", "R", "D", ",", " ", "X">>
      [] line = "\tIVHCUS ,D2 ; 009-010" ->
           <<"\t", "I", "V", "H", "C", "U", "S", " ", ",", "D", "2", " ",
             ";", " ", "0", "0", "9", "-", "0", "1", "0">>
      [] line = "\tIVHDAT ,A2 ; 011-012" ->
           <<"\t", "I", "V", "H", "D", "A", "T", " ", ",", "A", "2", " ",
             ";", " ", "0", "1", "1", "-", "0", "1", "2">>
      [] line = "\tIVDITM ,A6 ; 001-006" ->
           <<"\t", "I", "V", "D", "I", "T", "M", " ", ",", "A", "6", " ",
             ";", " ", "0", "0", "1", "-", "0", "0", "6">>
      [] line = "\tIVDQTY ,D2 ; 009-010" ->
           <<"\t", "I", "V", "D", "Q", "T", "Y", " ", ",", "D", "2", " ",
             ";", " ", "0", "0", "9", "-", "0", "1", "0">>
      [] line = "\tIVPTXT ,A2 ; 009-010" ->
           <<"\t", "I", "V", "P", "T", "X", "T", " ", ",", "A", "2", " ",
             ";", " ", "0", "0", "9", "-", "0", "1", "0">>
      [] line = "\tIVHALL ,X12 ; 001-012" ->
           <<"\t", "I", "V", "H", "A", "L", "L", " ", ",", "X", "1", "2",
             " ", ";", " ", "0", "0", "1", "-", "0", "1", "2">>
      [] line = "RECORD INVEND" ->
           <<"R", "E", "C", "O", "R", "D", " ", "I", "N", "V", "E", "N", "D">>
      [] line = "\tIVHAMT ,5D2 ; 010-014" ->
           <<"\t", "I", "V", "H", "A", "M", "T", " ", ",", "5", "D", "2",
             " ", ";", " ", "0", "1", "0", "-", "0", "1", "4">>
      [] line = "\tIVHQTY ,D3 ; 015-017" ->
           <<"\t", "I", "V", "H", "Q", "T", "Y", " ", ",", "D", "3", " ",
             ";", " ", "0", "1", "5", "-", "0", "1", "7">>
      [] line = "\tIvditm ,A3 ; 009-011" ->
           <<"\t", "I", "v", "d", "i", "t", "m", " ", ",", "A", "3", " ",
             ";", " ", "0", "0", "9", "-", "0", "1", "1">>
      [] line = "INV001 0 7AB\n" ->
           <<"I", "N", "V", "0", "0", "1", " ", "0", " ", "7", "A", "B",
             "\n">>
      [] line = "INV002 012CD\n" ->
           <<"I", "N", "V", "0", "0", "2", " ", "0", "1", "2", "C", "D",
             "\n">>
      [] line = "ITEM01 203\n" ->
           <<"I", "T", "E", "M", "0", "1", " ", "2", "0", "3", "\n">>
      [] line = "ITEM02 2\n" ->
           <<"I", "T", "E", "M", "0", "2", " ", "2", "\n">>
      [] line = "PO0001 1XX\n" ->
           <<"P", "O", "0", "0", "0", "1", " ", "1", "X", "X", "\n">>
      [] line = "        HDR\n" ->
           <<" ", " ", " ", " ", " ", " ", " ", " ", "H", "D", "R", "\n">>
      [] line = "ITEM03 9\n" ->
           <<"I", "T", "E", "M", "0", "3", " ", "9", "\n">>

\* The lines of a schema text that declares overlays without a name.
\* The lines of a schema text with declarations that get no field and
\* with field lines that are not field declarations.
RecordLines ==
    {"RECORD INVHDR,X", "\tIVHNUM ,A6  ; 001-006", "RECORD INVDTL ; DEVNO=12",
     "RECORD,X", "\tIVHBAD A6", "\tIVHBAD ,Q6"}

OverlayLines ==
    {"RECORD INVHDR,X", "\tIVHNUM ,A6  ; 001-006", "RECORD,X", "RECORD ,X",
     "RECORD, X"}

\* The lines of a schema text whose comments give a range, a range
\* written backwards, or none.
PositionLines ==
    {"RECORD INVHDR,X", "\tIVHNUM ,A6  ; 001-006", "\tIVHREV ,A6 ; 020-010",
     "\tIVHNOP ,A6 ; no range", "  ,7D2 ;amount 007-013"}

\* The lines of a data file.
DataLines ==
    {"INV001 0 7AB\n",
     "INV002 012CD\n",
     "ITEM01 203\n",
     "ITEM02 2\n",
     "PO0001 1XX\n",
     "        HDR\n",
     "ITEM03 9\n"}

\* The schema definition files the decoder's layouts are read from.
FullText ==
    <<"RECORD INVHDR,X", "\tIVHNUM ,A6  ; 001-006", "\tIVHCUS ,D2 ; 009-010",
      "\tIVHDAT ,A2 ; 011-012", "RECORD INVDTL ; DEVNO=12",
      "\tIVDITM ,A6 ; 001-006", "\tIVDQTY ,D2 ; 009-010", "RECORD INVPOR,X",
      "\tIVPTXT ,A2 ; 009-010", "RECORD INVEND">>
NoHeaderText ==
    <<"RECORD INVDTL ; DEVNO=12", "\tIVDITM ,A6 ; 001-006",
      "\tIVDQTY ,D2 ; 009-010", "RECORD INVPOR,X", "\tIVPTXT ,A2 ; 009-010">>
OverlayHeaderText ==
    <<"RECORD INVHDR,X", "\tIVHALL ,X12 ; 001-012", "RECORD INVDTL ; DEVNO=12",
      "\tIVDITM ,A6 ; 001-006", "\tIVDQTY ,D2 ; 009-010", "RECORD INVPOR,X",
      "\tIVPTXT ,A2 ; 009-010">>

SchemaTexts == {FullText, NoHeaderText, OverlayHeaderText}

\* A schema definition file whose detail fields have names that
\* load_details reads.
LoadText ==
    <<"RECORD INVHDR,X", "\tIVHNUM ,A6  ; 001-006", "\tIVHCUS ,D2 ; 009-010",
      "\tIVHDAT ,A2 ; 011-012", "RECORD INVDTL ; DEVNO=12",
      "\tINVITM ,A6 ; 001-006", "\tINVQTY ,D2 ; 009-010", "RECORD INVEND">>

\* A schema definition file with a scaled and an unscaled Decimal field,
\* with two fields of one lower-cased name, with a field that has no
\* range, with an overlay field, with a filler field and with a record
\* that has no field.
DecodeText ==
    <<"RECORD INVHDR,X", "\tIVHNUM ,A6  ; 001-006", "\tIVHAMT ,5D2 ; 010-014",
      "\tIVHQTY ,D3 ; 015-017", "RECORD INVDTL ; DEVNO=12",
      "\tIVDITM ,A6 ; 001-006", "\tIvditm ,A3 ; 009-011", "RECORD INVPOR,X",
      "\tIVHNOP ,A6 ; no range", "\tIVHALL ,X12 ; 001-012",
      "\tIVPTXT ,A2 ; 009-010", "  ,7D2 ;amount 007-013", "RECORD INVEND">>

\* parse_content on a whole text.
RECURSIVE ParseFrom(_, _, _)
ParseFrom(st, text, i) ==
    IF i > Len(text) THEN st
    ELSE ParseFrom(ParseLine(st, Chars(text[i])), text, i + 1)

\* load_dibol_schema: dibol_schema of a definition file.
SchemaOf(text) == ParseResult(ParseFrom(ParserStart, text, 1))

ParseInit ==
    /\ content = <<>>
    /\ parser = ParserStart
    /\ returned = <<>>

\* parse_content reads the next line of the text.
parse_line(line) ==
    /\ returned = <<>>
    /\ Len(content) < MaxLines
    /\ content' = Append(content, line)
    /\ parser' = ParseLine(parser, Chars(line))
    /\ UNCHANGED <<returned, syncVars, cleanupVars, dataVars, fetchVars,
                   callVars, storeVars>>

\* parse_content is at the end of the text and returns self.records;
\* load_dibol_schema keeps that list as dibol_schema.
parse_return ==
    /\ returned = <<>>
    /\ returned' = <<ParseResult(parser)>>
    /\ UNCHANGED <<content, parser, syncVars, cleanupVars, dataVars,
                   fetchVars, callVars, storeVars>>

\* to_json at the end of the text, lines 195-198: the open record joins
\* self.records when it has a field and no equal record is in the list;
\* the records are what the JSON text lists.
to_json ==
    /\ returned = <<>>
    /\ parser' = [parser EXCEPT !.records =
            IF /\ parser.current_record # <<>>
               /\ parser.current_record[1].fields # <<>>
               /\ \A k \in DOMAIN @ : @[k] # parser.current_record[1]
            THEN Append(@, parser.current_record[1]) ELSE @]
    /\ returned' = <<parser'.records>>
    /\ UNCHANGED <<content, syncVars, cleanupVars, dataVars, fetchVars,
                   callVars, storeVars>>

RecordsNext ==
    \/ \E line \in RecordLines : parse_line(line)
    \/ parse_return
    \/ to_json

OverlayNext ==
    \/ \E line \in OverlayLines : parse_line(line)
    \/ parse_return

PositionNext ==
    \/ \E line \in PositionLines : parse_line(line)
    \/ parse_return

ParseNext ==
    \/ \E line \in SchemaLines : parse_line(line)
    \/ parse_return

\* A call cleanup_old_archives(archive_dir, archive_count) of tasks.py, step by step.
CleanupInit ==
    /\ \E present \in SUBSET FileNames, ct \in [FileNames -> Ctimes] :
          archive_dir = {[name |-> n, ctime |-> ct[n]] : n \in present}
    /\ archive_is_dir = TRUE
    /\ archive_count \in 0..MaxKeep
    /\ cleanup_pc = "start"
    /\ found = <<0, NoFile>>
    /\ archive_before = archive_dir
    /\ cleanup_error = FALSE

\* A call cleanup_old_archives(archive_dir, archive_count) on a path that
\* may not be a directory, or on a directory with files whose stat()
\* raises OSError.
PruneInit ==
    /\ \E present \in SUBSET FileNames,
          ct \in [FileNames -> Ctimes \cup {Unreadable}] :
          archive_dir = {[name |-> n, ctime |-> ct[n]] : n \in present}
    /\ archive_is_dir \in BOOLEAN
    /\ ~archive_is_dir => archive_dir = {}
    /\ archive_count \in 0..MaxKeep
    /\ cleanup_pc = "start"
    /\ found = <<0, NoFile>>
    /\ archive_before = archive_dir
    /\ cleanup_error = FALSE

\* No call of cleanup_old_archives is looked at.
NoCleanup ==
    /\ archive_dir = {}
    /\ archive_is_dir = TRUE
    /\ archive_count = 0
    /\ cleanup_pc = "start"
    /\ found = <<0, NoFile>>
    /\ archive_before = {}
    /\ cleanup_error = FALSE

\* utils.py 76-79: return at once without a cap, else look for the oldest;
\* find_oldest_file returns None for a path that is no directory, and None
\* is not unpacked into count, oldest: TypeError.
cleanup_call ==
    /\ cleanup_pc = "start"
    /\ IF archive_count <= 0
       THEN /\ cleanup_pc' = "returned"
            /\ UNCHANGED found
       ELSE IF ~archive_is_dir
            THEN /\ cleanup_pc' = "TypeError"
                 /\ UNCHANGED found
            ELSE /\ \E listing \in Listings(archive_dir) :
                       found' = ScanOldest(listing)
                 /\ cleanup_pc' = "loop"
    /\ UNCHANGED <<archive_dir, archive_is_dir, archive_count, archive_before,
                   cleanup_error,
                   syncVars, parseVars, dataVars, fetchVars, callVars,
                   storeVars>>

\* utils.py 82-90, one turn of the loop: unlink the oldest and look again,
\* or break on OSError; oldest is None when no stat() succeeded, and
\* None.unlink() raises AttributeError, which is not caught.
cleanup_unlink(fails) ==
    /\ cleanup_pc = "loop"
    /\ found[1] > archive_count
    /\ IF found[2] = NoFile
       THEN /\ cleanup_pc' = "AttributeError"
            /\ UNCHANGED <<archive_dir, found, cleanup_error>>
       ELSE IF fails
            THEN /\ cleanup_error' = TRUE
                 /\ cleanup_pc' = "returned"
                 /\ UNCHANGED <<archive_dir, found>>
            ELSE /\ archive_dir' = archive_dir \ {found[2]}
                 /\ \E listing \in Listings(archive_dir') :
                       found' = ScanOldest(listing)
                 /\ UNCHANGED <<cleanup_pc, cleanup_error>>
    /\ UNCHANGED <<archive_is_dir, archive_count, archive_before, syncVars,
                   parseVars,
                   dataVars, fetchVars, callVars, storeVars>>

\* utils.py 82: the loop ends when the count is within the cap.
cleanup_return ==
    /\ cleanup_pc = "loop"
    /\ found[1] <= archive_count
    /\ cleanup_pc' = "returned"
    /\ UNCHANGED <<archive_dir, archive_is_dir, archive_count, found,
                   archive_before, cleanup_error, syncVars, parseVars,
                   dataVars, fetchVars,
                   callVars, storeVars>>

CleanupNext ==
    \/ cleanup_call
    \/ \E fails \in BOOLEAN : cleanup_unlink(fails)
    \/ cleanup_return

\* DibolDataParser(schema).parse_file(data_file), line by line.
DataInit ==
    /\ \E text \in SchemaTexts : schemas = Schemas(SchemaOf(text))
    /\ data_file = <<>>
    /\ file_state = FileStart

\* No data file is being decoded.
NoDataFile ==
    /\ schemas = <<>>
    /\ data_file = <<>>
    /\ file_state = FileStart

\* ----------------------------------------------------------------- pgutil.py

\* The keys load_headers and load_details read from a decoded record.
Column ==
    [ivhcnm |-> <<"i", "v", "h", "c", "n", "m">>,
     ivhord |-> <<"i", "v", "h", "o", "r", "d">>,
     ivhdue |-> <<"i", "v", "h", "d", "u", "e">>,
     ivhtax |-> <<"i", "v", "h", "t", "a", "x">>,
     ivhslm |-> <<"i", "v", "h", "s", "l", "m">>,
     ivhwhe |-> <<"i", "v", "h", "w", "h", "e">>,
     ivhtrc |-> <<"i", "v", "h", "t", "r", "c">>,
     ivhtrm |-> <<"i", "v", "h", "t", "r", "m">>,
     ivhtcs |-> <<"i", "v", "h", "t", "c", "s">>,
     ivhtpc |-> <<"i", "v", "h", "t", "p", "c">>,
     ivhrut |-> <<"i", "v", "h", "r", "u", "t">>,
     invitm |-> <<"i", "n", "v", "i", "t", "m">>,
     invdsc |-> <<"i", "n", "v", "d", "s", "c">>,
     invqty |-> <<"i", "n", "v", "q", "t", "y">>,
     invsel |-> <<"i", "n", "v", "s", "e", "l">>,
     invlam |-> <<"i", "n", "v", "l", "a", "m">>,
     invven |-> <<"i", "n", "v", "v", "e", "n">>,
     invbrn |-> <<"i", "n", "v", "b", "r", "n">>,
     invpak |-> <<"i", "n", "v", "p", "a", "k">>,
     invunt |-> <<"i", "n", "v", "u", "n", "t">>]

\* load_headers, lines 100-117: the parameters of one header.
HeaderRow(record, branch_id) ==
    [branch_id |-> branch_id,
     invoice_number |-> Get(record, K.ivhnum, <<>>),
     invoice_date |-> Get(record, K.ivhdat, <<>>),
     customer_number |-> Get(record, K.ivhcus, Num(0, 1)),
     customer_name |-> Get(record, Column.ivhcnm, <<>>),
     order_number |-> Get(record, Column.ivhord, Num(0, 1)),
     invoice_amount |-> Get(record, Column.ivhdue, Num(0, 1)),
     tax_amount |-> Get(record, Column.ivhtax, Num(0, 1)),
     salesman_number |-> Get(record, Column.ivhslm, Num(0, 1)),
     warehouse_number |-> Get(record, Column.ivhwhe, Num(0, 1)),
     transaction_code |-> Get(record, Column.ivhtrc, Num(0, 1)),
     terms_code |-> Get(record, Column.ivhtrm, Num(0, 1)),
     total_cases |-> Get(record, Column.ivhtcs, Num(0, 1)),
     total_pieces |-> Get(record, Column.ivhtpc, Num(0, 1)),
     route |-> Get(record, Column.ivhrut, Num(0, 1))]

\* load_details, lines 153-169: the parameters of one detail.
DetailRow(record, branch_id) ==
    [branch_id |-> branch_id,
     invoice_number |-> Get(record, K.invnum, <<>>),
     invoice_date |-> Get(record, K.invdat, <<>>),
     customer_number |-> Get(record, K.invcus, Num(0, 1)),
     line_number |-> Get(record, K.invlin, Num(0, 1)),
     item_number |-> Get(record, Column.invitm, Num(0, 1)),
     item_description |-> Get(record, Column.invdsc, <<>>),
     quantity |-> Get(record, Column.invqty, Num(0, 1)),
     unit_price |-> Get(record, Column.invsel, Num(0, 1)),
     extended_amount |-> Get(record, Column.invlam, Num(0, 1)),
     vendor_number |-> Get(record, Column.invven, Num(0, 1)),
     brand |-> Get(record, Column.invbrn, <<>>),
     pack |-> Get(record, Column.invpak, <<>>),
     unit |-> Get(record, Column.invunt, <<>>)]

\* The columns named by ON CONFLICT (...) of the two statements.
HeaderKey ==
    {"branch_id", "invoice_number", "invoice_date", "customer_number"}

DetailKey ==
    {"branch_id", "invoice_number", "invoice_date", "customer_number",
     "line_number"}

KeyOf(row, key) == [c \in key |-> row[c]]

\* A row as the table stores it: the parameters and the column updated_at.
StoredRow(row, updated_at) ==
    [c \in DOMAIN row \cup {"updated_at"} |->
        IF c = "updated_at" THEN updated_at ELSE row[c]]

\* INSERT, were the statement without its ON CONFLICT clause and the table
\* without the constraint.
InsertOnly(table, row, key, now) == table \cup {StoredRow(row, now)}

\* INSERT ... ON CONFLICT (key) DO UPDATE SET ..., updated_at =
\* CURRENT_TIMESTAMP, for one row of parameters: a row of that key gets the
\* values of the new one and the time of the transaction; without one the
\* row is added, its updated_at left to the default of the column, 0 here.
Upsert(table, row, key, now) ==
    IF \E r \in table : KeyOf(r, key) = KeyOf(row, key)
    THEN {r \in table : KeyOf(r, key) # KeyOf(row, key)}
           \cup {StoredRow(row, now)}
    ELSE table \cup {StoredRow(row, 0)}

\* sess.execute(sql, rows): the statement once for every row, in order.
RECURSIVE Execute(_, _, _, _, _)
Execute(table, rows, key, now, i) ==
    IF i > Len(rows) THEN table
    ELSE Execute(Upsert(table, rows[i], key, now), rows, key, now, i + 1)

\* load_headers and load_details: nothing is sent for an empty list.
load_headers(table, headers, branch_id, now) ==
    IF headers = <<>> THEN table
    ELSE Execute(table, [i \in DOMAIN headers |-> HeaderRow(headers[i], branch_id)],
                 HeaderKey, now, 1)

load_details(table, details, branch_id, now) ==
    IF details = <<>> THEN table
    ELSE Execute(table, [i \in DOMAIN details |-> DetailRow(details[i], branch_id)],
                 DetailKey, now, 1)

\* parse_file on a whole file.
RECURSIVE ParseFileFrom(_, _, _, _)
ParseFileFrom(index, st, lines, i) ==
    IF i > Len(lines) THEN st
    ELSE ParseFileFrom(index, ParseFileLine(index, st, Chars(lines[i])),
                       lines, i + 1)

\* No file is being loaded into the tables.
NoStore ==
    /\ invoice_headers = {}
    /\ invoice_details = {}
    /\ db_clock = 0
    /\ load_pc = <<1, "parse">>
    /\ stored_once = [headers |-> {}, details |-> {}]

\* tasks.py 138-143, twice over one file of the working directory, as in
\* two runs of task_sync_branch: the file is decoded, ...
parse_file_call ==
    /\ load_pc[2] = "parse"
    /\ file_state' = ParseFileFrom(schemas, FileStart, data_file, 1)
    /\ load_pc' = <<load_pc[1], "headers">>
    /\ UNCHANGED <<schemas, data_file, invoice_headers, invoice_details,
                   db_clock, stored_once, syncVars, parseVars, cleanupVars,
                   fetchVars, callVars>>

\* ... its headers are loaded in a transaction, ...
load_headers_call ==
    /\ load_pc[2] = "headers"
    /\ db_clock' = db_clock + 1
    /\ invoice_headers' =
          load_headers(invoice_headers, file_state.results.headers, 1,
                       db_clock')
    /\ load_pc' = <<load_pc[1], "details">>
    /\ UNCHANGED <<invoice_details, stored_once, syncVars, parseVars,
                   cleanupVars, dataVars, fetchVars, callVars>>

\* ... and its details in another.
load_details_call ==
    /\ load_pc[2] = "details"
    /\ db_clock' = db_clock + 1
    /\ invoice_details' =
          load_details(invoice_details, file_state.results.details, 1,
                       db_clock')
    /\ load_pc' = IF load_pc[1] = 1 THEN <<2, "parse">> ELSE <<2, "done">>
    /\ stored_once' =
          IF load_pc[1] = 1
          THEN [headers |-> invoice_headers, details |-> invoice_details']
          ELSE stored_once
    /\ UNCHANGED <<invoice_headers, syncVars, parseVars, cleanupVars,
                   dataVars, fetchVars, callVars>>

LoadNext ==
    \/ parse_file_call
    \/ load_headers_call
    \/ load_details_call

\* parse_file reads the next line of the file.
parse_file_line(line) ==
    /\ Len(data_file) < MaxData
    /\ data_file' = Append(data_file, line)
    /\ file_state' = ParseFileLine(schemas, file_state, Chars(line))
    /\ UNCHANGED <<schemas, syncVars, parseVars, cleanupVars, fetchVars,
                   callVars, storeVars>>

DataNext == \E line \in DataLines : parse_file_line(line)

\* Whether the field has a range of columns.
HasSpan(field) == field.start_pos >= 1 /\ field.end_pos >= field.start_pos

\* The texts a data file may hold in the columns of a field: a text on
\* the left and spaces after it, or, in a Decimal field, a number on the
\* right and zeros before it.
FieldTexts(field) ==
    LET width == field.end_pos - field.start_pos + 1
        AlphaValues ==
            {<<>>, <<"A">>, <<"A", " ", "B">>,
             <<"I", "N", "V", "0", "0", "1">>}
        DecimalValues == {0, 7, 1234}
        OtherTexts ==
            {<<>>, <<"1", "A">>, <<"-", "5">>, <<"+", "5">>, <<"1", "_", "2">>,
             <<" ", "8">>, <<"1", " ", "2">>, <<"-">>}
        left(v) == v \o [i \in 1..(width - Len(v)) |-> " "]
        right(n) == [i \in 1..(width - Len(IntToStr(n))) |-> "0"] \o IntToStr(n)
    IN IF ~HasSpan(field) THEN {<<>>}
       ELSE IF field.data_type = "D"
            THEN {right(n) : n \in {m \in DecimalValues :
                                       Len(IntToStr(m)) <= width}}
                 \cup {left(v) : v \in {t \in OtherTexts : Len(t) <= width}}
            ELSE {left(v) : v \in {t \in AlphaValues : Len(t) <= width}}

\* The line that holds texts[i] in the columns of fields[i] and spaces
\* elsewhere.
LineOf(fields, texts) ==
    LET spanned == {i \in DOMAIN fields : HasSpan(fields[i])}
        length == IF spanned = {} THEN 0
                  ELSE Greatest({fields[i].end_pos : i \in spanned})
        at(c) == {i \in spanned :
                    fields[i].start_pos <= c /\ c <= fields[i].end_pos}
    IN [c \in 1..length |->
          IF at(c) = {} THEN " "
          ELSE texts[Greatest(at(c))][c - fields[Greatest(at(c))].start_pos + 1]]

\* The lines of a data file for a layout: whole, or cut short by up to
\* MaxCut characters, with and without the end of line.
LinesOf(fields) ==
    LET all == UNION {FieldTexts(fields[i]) : i \in DOMAIN fields}
        whole == {LineOf(fields, texts) :
                    texts \in {t \in [DOMAIN fields -> all] :
                                 \A i \in DOMAIN fields :
                                    t[i] \in FieldTexts(fields[i])}}
    IN {SubSeq(l, 1, Len(l) - cut) \o eol :
          l \in whole, cut \in 0..MaxCut, eol \in {<<>>, <<"\n">>}}

\* No call of a method of the decoder is looked at.
NoCall ==
    /\ call_pc = "start"
    /\ call_line = <<>>
    /\ call_name = <<>>
    /\ call_type = "None"
    /\ call_record = <<>>

\* A call identify_record_type(line) is about to be made, on a line of up
\* to seven characters of padding, end marker and text, and any character
\* from column 8 on.
ClassifyInit ==
    /\ call_pc = "start"
    /\ LET head == {" ", "]", "x"}
           rest == {" ", "]", "0", "1", "2", "x", "\n"}
       IN \E n \in 0..MaxLineLen :
             IF n <= 7 THEN call_line \in [1..n -> head]
             ELSE \E p \in [1..7 -> head], q \in [1..(n - 7) -> rest] :
                     call_line = p \o q
    /\ call_name = <<>>
    /\ call_type = "None"
    /\ call_record = <<>>

identify_record_type_call ==
    /\ call_pc = "start"
    /\ call_type' = identify_record_type(call_line)
    /\ call_pc' = "returned"
    /\ UNCHANGED <<call_line, call_name, call_record, syncVars, parseVars,
                   cleanupVars, dataVars, fetchVars, storeVars>>

\* A field line "<name> ,<leading digits><letter><trailing digits><tail>";
\* a negative number stands for no digits.
FieldLine(name, lead, letter, trail, tail) ==
    <<"\t">> \o name \o <<" ", ",">>
      \o (IF lead < 0 THEN <<>> ELSE IntToStr(lead)) \o <<letter>>
      \o (IF trail < 0 THEN <<>> ELSE IntToStr(trail)) \o tail

\* One turn of the loop of parse_content, on the line of the call.
parse_field_line_call ==
    /\ call_pc = "start"
    /\ parser' = ParseLine(parser, call_line)
    /\ call_pc' = "returned"
    /\ UNCHANGED <<content, returned, call_line, call_name, call_type,
                   call_record, syncVars, cleanupVars, dataVars, fetchVars,
                   storeVars>>

\* A call parse_line(line, record_name) is about to be made on a decoder
\* built from DecodeText, with a line laid out for one of its records.
DecodeInit ==
    /\ schemas = Schemas(SchemaOf(DecodeText))
    /\ data_file = <<>>
    /\ file_state = FileStart
    /\ call_pc = "start"
    /\ \E layout \in DOMAIN schemas : call_line \in LinesOf(schemas[layout].fields)
    /\ call_name \in DOMAIN schemas \cup {<<"I", "N", "V", "E", "N", "D">>}
    /\ call_type = "None"
    /\ call_record = <<>>

parse_line_call ==
    /\ call_pc = "start"
    /\ call_record' = DecodeLine(schemas, call_line, call_name)
    /\ call_pc' = "returned"
    /\ UNCHANGED <<call_line, call_name, call_type, syncVars, parseVars,
                   cleanupVars, dataVars, fetchVars, storeVars>>

\* fetch_ftp_file, from the login to the RETR command.
FetchInit ==
    /\ remote_filename \in RemoteFilenames
    /\ \E n \in 0..MaxList : file_list \in [1..n -> ListedNames]
    /\ retr_file = <<>>
    /\ target = <<>>

\* No retrieval is looked at.
NoFetch ==
    /\ remote_filename = "Inv.x"
    /\ file_list = <<>>
    /\ retr_file = <<>>
    /\ target = <<>>

\* fetch_ftp_file, lines 52-71: target, the listing, the name to retrieve.
fetch_command ==
    /\ retr_file = <<>>
    /\ LET listing == [i \in DOMAIN file_list |-> NameChars(file_list[i])]
       IN retr_file' = RemoteFile(NameChars(remote_filename), listing)
    /\ target' = TargetName(NameChars(remote_filename))
    /\ UNCHANGED <<remote_filename, file_list, syncVars, parseVars,
                   cleanupVars, dataVars, callVars, storeVars>>

FetchNext == fetch_command

SyncNext ==
    \/ \E r \in Requests, t \in BranchTexts : sync_branch(r, t)
    \/ \E r \in Requests : task_start(r)
    \/ \E r \in Requests : task_semaphore(r)
    \/ \E r \in Requests, o \in FetchOutcomes, q \in BOOLEAN : task_fetch(r, o, q)
    \/ \E r \in Requests, f \in WorkFiles, s \in {"ok", "headers", "details"},
          k \in 0..2 : task_file(r, f, s, k)
    \/ \E r \in Requests, l \in BOOLEAN : task_finish(r, l)

\* The sync pipeline and the status endpoint.
StatusNext ==
    \/ SyncNext
    \/ \E t \in BranchTexts : status_sync_branch(t)

\* The sync pipeline, with the schema already loaded.
Init ==
    /\ SyncInit /\ ParseInit /\ NoCleanup /\ NoDataFile /\ NoFetch
    /\ NoCall /\ NoStore

Spec == Init /\ [][SyncNext]_vars

\* The schema parser at startup, before any request.
StartupInit ==
    /\ SyncInit
    /\ NoStore
    /\ max_archive_files = 0
    /\ archive = [b \in Branches |-> {}]
    /\ ParseInit
    /\ NoCleanup
    /\ NoDataFile
    /\ NoFetch
    /\ NoCall

SpecParse == StartupInit /\ [][ParseNext]_vars

\* The schema parser on texts with and without position ranges.
SpecPositions == StartupInit /\ [][PositionNext]_vars

\* The schema parser on texts with the three forms of a nameless overlay.
SpecOverlay == StartupInit /\ [][OverlayNext]_vars

\* The schema parser and to_json on texts with records that get no field.
SpecRecords == StartupInit /\ [][RecordsNext]_vars

\* The service with its two endpoints of /dibol/sync, started on empty
\* folders and with no retention cap.
StatusStart ==
    /\ SyncInit
    /\ NoStore
    /\ max_archive_files = 0
    /\ archive = [b \in Branches |-> {}]
    /\ ParseInit
    /\ NoCleanup
    /\ NoDataFile
    /\ NoFetch
    /\ NoCall

SpecStatus == StatusStart /\ [][StatusNext]_vars

\* A call of cleanup_old_archives on any directory of up to MaxFiles files.
CleanupStart ==
    /\ SyncInit
    /\ NoStore
    /\ max_archive_files = 0
    /\ archive = [b \in Branches |-> {}]
    /\ ParseInit
    /\ CleanupInit
    /\ NoDataFile
    /\ NoFetch
    /\ NoCall

SpecCleanup == CleanupStart /\ [][CleanupNext]_vars

\* A call of cleanup_old_archives on a path that may be no directory, or
\* a directory with files whose creation time cannot be read.
PruneStart ==
    /\ SyncInit
    /\ NoStore
    /\ max_archive_files = 0
    /\ archive = [b \in Branches |-> {}]
    /\ ParseInit
    /\ PruneInit
    /\ NoDataFile
    /\ NoFetch
    /\ NoCall

SpecPrune == PruneStart /\ [][CleanupNext]_vars

\* The decoding of a data file under one of the schemas.
DataStart ==
    /\ SyncInit
    /\ NoStore
    /\ max_archive_files = 0
    /\ archive = [b \in Branches |-> {}]
    /\ ParseInit
    /\ NoCleanup
    /\ DataInit
    /\ NoFetch
    /\ NoCall

SpecData == DataStart /\ [][DataNext]_vars

\* The choice of the remote file, for every configured name and listing.
FetchStart ==
    /\ SyncInit
    /\ NoStore
    /\ max_archive_files = 0
    /\ archive = [b \in Branches |-> {}]
    /\ ParseInit
    /\ NoCleanup
    /\ NoDataFile
    /\ FetchInit
    /\ NoCall

SpecFetch == FetchStart /\ [][FetchNext]_vars

\* A call of identify_record_type, for every line of up to MaxLineLen characters.
ClassifyStart ==
    /\ SyncInit
    /\ NoStore
    /\ max_archive_files = 0
    /\ archive = [b \in Branches |-> {}]
    /\ ParseInit
    /\ NoCleanup
    /\ NoDataFile
    /\ NoFetch
    /\ ClassifyInit

SpecClassify == ClassifyStart /\ [][identify_record_type_call]_vars

\* A call of parse_line, for every record name and line of a layout.
DecodeStart ==
    /\ SyncInit
    /\ NoStore
    /\ max_archive_files = 0
    /\ archive = [b \in Branches |-> {}]
    /\ ParseInit
    /\ NoCleanup
    /\ NoFetch
    /\ DecodeInit

SpecDecode == DecodeStart /\ [][parse_line_call]_vars

\* parse_content is about to read a field line, with or without an open
\* record, for every form of the type specification.
FieldLineStart ==
    /\ SyncInit
    /\ NoStore
    /\ max_archive_files = 0
    /\ archive = [b \in Branches |-> {}]
    /\ NoCleanup
    /\ NoDataFile
    /\ NoFetch
    /\ content = <<>>
    /\ parser \in {ParserStart, ParseLine(ParserStart, Chars("RECORD INVHDR,X"))}
    /\ returned = <<>>
    /\ call_pc = "start"
    /\ \E name \in {<<>>, <<"F", "L", "D">>}, lead \in {-1, 0, 5, 12},
          letter \in {"A", "D", "X", "Q"}, trail \in {-1, 2, 10},
          tail \in {<<>>, <<"Z">>, Chars("; 001-006 note")} :
          call_line = FieldLine(name, lead, letter, trail, tail)
    /\ call_name = <<>>
    /\ call_type = "None"
    /\ call_record = <<>>

SpecFieldLine == FieldLineStart /\ [][parse_field_line_call]_vars

\* A data file of the working directory is decoded and loaded into empty
\* tables, and then once more.
LoadStart ==
    /\ SyncInit
    /\ max_archive_files = 0
    /\ archive = [b \in Branches |-> {}]
    /\ ParseInit
    /\ NoCleanup
    /\ NoFetch
    /\ NoCall
    /\ NoStore
    /\ schemas = Schemas(SchemaOf(LoadText))
    /\ \E n \in 0..MaxData : data_file \in [1..n -> DataLines]
    /\ file_state = FileStart

SpecLoad == LoadStart /\ [][LoadNext]_vars

\* ------------------------------------------------------------------ claims

Branch(r) == ToInt(reqText[r])

RunsInSection(b) ==
    {r \in Requests : pc[r] \in InSection /\ Branch(r) = b}

\* C1: for every source key at most one run is inside the slot-protected
\* section, the run inside holds the permit of its own key, and the permit
\* of a key is taken by no run of another key.
C1_MutualExclusionPerKey ==
    \A b \in Branches :
       /\ Cardinality(RunsInSection(b)) <= 1
       /\ RunsInSection(b) # {} =>
             /\ Str(b) \in DOMAIN keyed_semaphores
             /\ keyed_semaphores[Str(b)] = 0
       /\ RunsInSection(b) = {} /\ Str(b) \in DOMAIN keyed_semaphores =>
             keyed_semaphores[Str(b)] = SEMAPHORE_LIMIT

\* A run of branch 1 is inside its section and holds slot "1" while a task
\* of branch 2 is queued and slot "2" is free.
C1_Witness ==
    \E r, q \in Requests :
       /\ pc[r] = "files" /\ Branch(r) = 1
       /\ pc[q] = "queued" /\ Branch(q) = 2
       /\ keyed_semaphores["1"] = 0
       /\ "2" \in DOMAIN keyed_semaphores /\ keyed_semaphores["2"] = SEMAPHORE_LIMIT

\* C2: of two sync requests for one key, the second issued before the run
\* of the first has finished (here: before it has started), exactly one is
\* accepted and the other is answered busy and never runs.
C2_OneAcceptedOneBusy ==
    \A r, q \in Requests :
       (r < q /\ pc[r] = "queued" /\ pc[q] # "idle" /\ Branch(r) = Branch(q))
          => reqResult[q] = "locked" /\ pc[q] = "rejected"

\* C3: when the retrieval step of a run failed, the status file left at the
\* end of the run holds the failure reason.
C3_StatusKeepsFailureReason ==
    (run.req # 0 /\ pc[run.req] = "done"
       /\ run.fetch \in {"connect", "login", "retr", "empty"})
      => status[run.branch] = run.msg

\* C4: after a run that ended without error, every file decoded in it has
\* left the working directory.
C4_DecodedFilesLeaveWorkDir ==
    (run.req # 0 /\ pc[run.req] = "done")
      => \A f \in run.decoded : work[run.branch][f] = "absent"

\* C5: a failure of any remote step ends the retrieval with a reason and the
\* run goes on: no transport error leaves the sync routine, and the files
\* found in the working directory are decoded and forwarded.
C5_TransportFailureAbsorbed ==
    (run.req # 0 /\ run.fetch \in {"connect", "login", "cwd", "nlst", "retr"})
      => /\ run.error # "transport"
         /\ pc[run.req] = "done" =>
               run.listed \subseteq run.decoded /\ run.decoded \subseteq run.details

\* C6: on a transfer failure the fetch returns no file, and the failed
\* download leaves no file that is decoded or counted.
C6_TransferFailureLeavesNoFile ==
    (run.req # 0 /\ run.fetch = "retr" /\ pc[run.req] \in {"files", "done"})
      => /\ ~run.download_file
         /\ work[run.branch][Target] # "partial"
         /\ Target \notin run.decoded

\* The named RECORD declarations and the valid field lines of a text.
IsNamedDeclaration(line) ==
    /\ ~IsSkipped(line)
    /\ IsRecordLine(line)
    /\ Len(SplitWS(Strip(CodePart(line)))) >= 2

DeclaredName(line) == RStripChar(SplitWS(Strip(CodePart(line)))[2], ",")

IsValidFieldLine(line) ==
    /\ ~IsSkipped(line)
    /\ IsFieldLine(line)
    /\ FieldOf(CodePart(line), CommentPart(line)) # <<>>

\* Line i declares a record that gets at least one field.
DeclaresRecordWithField(text, i) ==
    /\ IsNamedDeclaration(Chars(text[i]))
    /\ \E j \in (i + 1)..Len(text) :
          /\ IsValidFieldLine(Chars(text[j]))
          /\ \A k \in (i + 1)..(j - 1) : ~IsNamedDeclaration(Chars(text[k]))

ScenarioRecord ==
    [record_name |-> <<"I", "N", "V", "H", "D", "R", ",", "X">>,
     is_overlay |-> TRUE, device_no |-> -1,
     fields |-> <<[field_name |-> <<"I", "V", "H", "N", "U", "M">>,
                   data_type |-> "A", length |-> 6, decimals |-> 0,
                   start_pos |-> 1, end_pos |-> 6, comment |-> <<>>]>>]

\* C7: the list parse returns holds every named record declaration that is
\* followed by a valid field line, the last one included; the two-line
\* scenario text gives exactly the record INVHDR,X.
C7_EveryDeclaredRecordReturned ==
    returned # <<>> =>
       /\ \A i \in DOMAIN content :
             DeclaresRecordWithField(content, i) =>
                \E k \in DOMAIN returned[1] :
                   returned[1][k].record_name = DeclaredName(Chars(content[i]))
       /\ content = <<"RECORD INVHDR,X", "\tIVHNUM ,A6  ; 001-006">> =>
             returned[1] = <<ScenarioRecord>>

\* C8: a slot is held only while a run of its key is inside the section:
\* every way out of the section, an exception included, gives the permit
\* back.
C8_SlotHeldOnlyByRunningTask ==
    \A k \in DOMAIN keyed_semaphores :
       /\ keyed_semaphores[k] \in 0..SEMAPHORE_LIMIT
       /\ keyed_semaphores[k] < SEMAPHORE_LIMIT =>
             \E r \in Requests : pc[r] \in InSection /\ Str(Branch(r)) = k

\* A run ended by an exception and a later run of the same branch is inside
\* the section.
C8_Witness ==
    \E r, q \in Requests :
       /\ pc[r] = "failed" /\ pc[q] \in InSection
       /\ Branch(r) = Branch(q)
       /\ keyed_semaphores[Str(Branch(q))] = 0

\* No sync call ever finds the slot of its key held: the endpoint never
\* answers "locked" and no background task returns at the slot check.
NeverFoundLocked ==
    \A r \in Requests : pc[r] \notin {"rejected", "busy"}

NamesDistinct(schema) ==
    /\ \A i, j \in DOMAIN schema :
          i # j => schema[i].record_name # schema[j].record_name
    /\ Cardinality(DOMAIN Schemas(schema)) = Len(schema)

DeclaredOnce(text) ==
    LET decls == {i \in DOMAIN text : IsNamedDeclaration(Chars(text[i]))}
    IN Cardinality({DeclaredName(Chars(text[i])) : i \in decls}) = Cardinality(decls)

C11_ArchiveWithinCap ==
    (run.cleanup = "done" /\ max_archive_files > 0) =>
        Cardinality(archive[run.branch]) <= max_archive_files

\* A run has pruned an archive that held more files than the cap.
C11_Witness ==
    /\ run.cleanup = "done"
    /\ max_archive_files > 0
    /\ run.branch = 1
    /\ archive[1] # ArchiveSeed
    /\ Cardinality(archive[1]) = max_archive_files

Max(a, b) == IF a >= b THEN a ELSE b

\* C12: a pruning with cap > 0 in which no deletion failed has deleted
\* exactly the max(0, n - cap) files that are oldest by creation time, ties
\* decided by the smaller name, whatever the order of the listings; nothing
\* is deleted when n <= cap, and 4 files with cap 2 end as the 2 newest.
C12_DeletesExactlyTheOldest ==
    (cleanup_pc = "returned" /\ archive_count > 0 /\ ~cleanup_error) =>
        LET deleted == archive_before \ archive_dir
            n == Cardinality(archive_before)
        IN /\ archive_dir \subseteq archive_before
           /\ Cardinality(deleted) = Max(0, n - archive_count)
           /\ \A d \in deleted, f \in archive_dir : Older(d, f)
           /\ n <= archive_count => archive_dir = archive_before
           /\ (archive_count = 2 /\ archive_before =
                  {[name |-> 1, ctime |-> 2], [name |-> 2, ctime |-> 1],
                   [name |-> 3, ctime |-> 1], [name |-> 4, ctime |-> 2]})
                => archive_dir = {[name |-> 1, ctime |-> 2],
                                  [name |-> 4, ctime |-> 2]}

\* Four files, two of them of the same creation time, pruned to a cap of 2.
C12_Witness ==
    /\ cleanup_pc = "returned"
    /\ ~cleanup_error
    /\ archive_count = 2
    /\ Cardinality(archive_before) = 4
    /\ Cardinality(archive_dir) = 2
    /\ \E d \in archive_before \ archive_dir, f \in archive_dir :
          d.ctime = f.ctime

\* The call step by step ends with the directory that cleanup_old_archives,
\* taken as one step, gives.
CleanupAsOneStep ==
    (cleanup_pc = "returned" /\ ~cleanup_error) =>
        archive_dir = cleanup_old_archives(archive_before, archive_count, 0)

\* What the lines of the data file read so far are, taken one by one.
LineType(i) == identify_record_type(Chars(data_file[i]))

Decoded(i) == DecodeLine(schemas, Chars(data_file[i]), TypeName(LineType(i)))

IsHeaderRecord(i) == LineType(i) = "INVHDR,X" /\ Truthy(Decoded(i))

IsDetailRecord(i) == LineType(i) = "INVDTL" /\ Truthy(Decoded(i))

HeadersBefore(i) == {h \in 1..(i - 1) : IsHeaderRecord(h)}

\* The detail lines that have a header record before them.
DetailLines ==
    {i \in DOMAIN data_file : IsDetailRecord(i) /\ HeadersBefore(i) # {}}

NthOf(S, k) == CHOOSE i \in S : Cardinality({j \in S : j <= i}) = k

InheritedKeys == {K.invnum, K.invdat, K.invcus, K.invlin}

\* C13: the emitted detail records are, in the order of the input lines,
\* those of the detail lines that follow some header record; each carries
\* the invoice number, date and customer number of the nearest header
\* record before it and, as its line number, the count of detail records
\* since that header; no other line changes the context or the counter.
C13_DetailsFollowNearestHeader ==
    LET details == file_state.results.details
    IN /\ Len(details) = Cardinality(DetailLines)
       /\ Len(file_state.results.headers) =
             Cardinality({h \in DOMAIN data_file : IsHeaderRecord(h)})
       /\ \A k \in DOMAIN details :
             LET i == NthOf(DetailLines, k)
                 h == Greatest(HeadersBefore(i))
                 header == Decoded(h)[1]
                 own == Decoded(i)[1]
             IN /\ details[k][K.invnum] = Get(header, K.ivhnum, <<>>)
                /\ details[k][K.invdat] = Get(header, K.ivhdat, <<>>)
                /\ details[k][K.invcus] = Get(header, K.ivhcus, Num(0, 1))
                /\ details[k][K.invlin] =
                      Num(Cardinality({j \in DetailLines : h < j /\ j <= i}), 1)
                /\ \A key \in DOMAIN own \ InheritedKeys :
                      details[k][key] = own[key]

\* Two headers, each followed by a detail: the second detail is line 1 of
\* the second invoice.
C13_Witness ==
    LET details == file_state.results.details
        headers == file_state.results.headers
    IN /\ Len(headers) = 2
       /\ Len(details) = 2
       /\ details[1][K.invnum] = headers[1][K.ivhnum]
       /\ details[2][K.invnum] = headers[2][K.ivhnum]
       /\ headers[1][K.ivhnum] # headers[2][K.ivhnum]
       /\ details[2][K.invlin] = Num(1, 1)

\* C14: after status queries alone, with no sync request for the branch
\* asked about, the status endpoint never answers "Done" ("Done" is for a
\* background run that has finished).
C14_NoDoneWithoutSync ==
    statusReply.status = "Done" =>
        \E r \in Requests :
            /\ pc[r] # "idle"
            /\ ToInt(reqText[r]) = ToInt(statusReply.text)

\* C15: at the end of a run, when at least one file was processed the
\* last-processed timestamp was updated exactly once and the status file
\* says "OK"; when none was, the timestamp was not updated and the status
\* file says "No files to process.".
C15_EndOfRunStatus ==
    (run.req \in Requests /\ pc[run.req] = "done") =>
        IF run.processed_count > 0
        THEN run.last_processed = 1 /\ status[run.branch] = "OK"
        ELSE /\ run.last_processed = 0
             /\ status[run.branch] = "No files to process."

\* A run whose retrieval succeeded has processed the download and ended.
C15_Witness ==
    /\ run.req \in Requests
    /\ pc[run.req] = "done"
    /\ run.fetch = "ok"
    /\ run.processed_count > 0
    /\ run.last_processed = 1
    /\ status[run.branch] = "OK"

\* The entries of the listing whose name starts, case ignored, with the
\* stem of the configured file name.
Listing == [i \in DOMAIN file_list |-> NameChars(file_list[i])]

ConfiguredName == PathName(NameChars(remote_filename))

Matching ==
    {i \in DOMAIN Listing :
        StartsWith(Lower(Listing[i]), Lower(PathStem(ConfiguredName)))}

\* C16: the file retrieved is a listed entry that matches the stem of the
\* configured name; when no entry matches, the name requested is the exact
\* configured file name, unchanged; the local path is named after the
\* configured file name in both cases.
C16_RetrievesMatchOrConfiguredName ==
    retr_file # <<>> =>
        /\ Matching # {} => \E i \in Matching : retr_file = Listing[i]
        /\ Matching = {} => retr_file = ConfiguredName
        /\ target = ConfiguredName

NamelessOverlay == {"RECORD,X", "RECORD ,X", "RECORD, X"}

\* C17: a RECORD line without a name and with the overlay qualifier, in
\* any of its three spellings, sets the overlay flag of the open record
\* and neither starts a record nor finalizes the open one: the records and
\* the open record's name and fields are as before the line.
C17_NamelessOverlayAmendsOpenRecord ==
    [][(/\ Len(content') = Len(content) + 1
        /\ content'[Len(content')] \in NamelessOverlay)
       => /\ parser'.records = parser.records
          /\ parser'.current_record =
                IF parser.current_record = <<>> THEN <<>>
                ELSE <<[parser.current_record[1] EXCEPT !.is_overlay = TRUE]>>
      ]_vars

\* The file a step of the loop over the working directory has processed.
FileTurn == run'.processed_count = run.processed_count + 1

TurnFile == CHOOSE f \in run'.decoded : f \notin run.decoded

\* C18: in a run, the working directory and the archive of the branch are
\* touched for a file (archive move, pruning) only when the header upsert
\* and the detail upsert of that file have both returned; a file whose
\* upsert fails is not archived and stays in the working directory.
C18_ArchiveOnlyAfterUpserts ==
    [][FileTurn =>
         LET b == run'.branch
         IN /\ (archive'[b] # archive[b] \/ work'[b] # work[b]) =>
                  (TurnFile \in run'.headers /\ TurnFile \in run'.details)
            /\ run'.error = "sink" =>
                  /\ archive'[b] = archive[b]
                  /\ work'[b] = work[b]
                  /\ work'[b][TurnFile] # "absent"
      ]_vars

\* A run has loaded one file and pruned the archive after it, then the
\* upsert of its second file has failed and that file is still there.
C18_Witness ==
    /\ run.error = "sink"
    /\ run.details # {}
    /\ run.cleanup = "done"
    /\ archive[run.branch] # ArchiveSeed
    /\ \E f \in run.decoded \ run.details : work[run.branch][f] # "absent"

\* C19: a failure of a sink operation ends the run by an exception that
\* leaves task_sync_branch: from the failure on the run forwards nothing
\* more to the sink, writes no status, does not update the last-processed
\* timestamp, and the slot of its branch is free.
C19_SinkFailurePropagates ==
    [][(run'.error = "sink" /\ run'.req = run.req) =>
         LET b == run'.branch
         IN /\ pc'[run'.req] = "failed"
            /\ status'[b] = status[b]
            /\ run'.last_processed = 0
            /\ ~locked(keyed_semaphores', TaskKey(b))
            /\ run.error = "sink" =>
                  /\ run'.headers = run.headers
                  /\ run'.details = run.details
      ]_vars

\* The detail upsert of a file has failed after its headers were loaded.
C19_Witness ==
    /\ run.error = "sink"
    /\ pc[run.req] = "failed"
    /\ run.headers # run.details
    /\ ~locked(keyed_semaphores, TaskKey(run.branch))

\* The fields the parser has produced so far, in its output and in the
\* record that is open.
ParsedRecords ==
    {parser.records[i] : i \in DOMAIN parser.records}
        \cup {parser.current_record[i] : i \in DOMAIN parser.current_record}

ParsedFields ==
    UNION {{rec.fields[i] : i \in DOMAIN rec.fields} : rec \in ParsedRecords}

\* C20: every field the parser produces, for any schema text, has
\* end >= start whenever start and end are both nonzero.
C20_EndNotBeforeStart ==
    \A field \in ParsedFields :
        (field.start_pos # 0 /\ field.end_pos # 0) =>
            field.end_pos >= field.start_pos

\* The layout a call of parse_line decodes with, when its record name is
\* one of the index.
CallFields == schemas[call_name].fields

CallDecodes == call_pc = "returned" /\ call_name \in DOMAIN schemas

\* A text without the whitespace around it.
Trimmed(s) ==
    LET inked == {i \in DOMAIN s : s[i] \notin WS}
    IN IF inked = {} THEN <<>> ELSE SubSeq(s, Min(inked), Greatest(inked))

\* What the line holds in the columns start..end of a field, trimmed; the
\* empty text when the line ends before column end or the field has no
\* column.
Columns(field) ==
    IF field.end_pos > Len(call_line) \/ ~HasSpan(field) THEN <<>>
    ELSE Trimmed([c \in 1..(field.end_pos - field.start_pos + 1) |->
                     call_line[field.start_pos + c - 1]])

\* A text that is digits after at most one sign, and the integer it
\* writes.
IsIntegerText(t) ==
    /\ t # <<>>
    /\ \A i \in DOMAIN t : t[i] \in Digits \/ (i = 1 /\ t[i] \in {"+", "-"})
    /\ t[Len(t)] \in Digits

IntegerOf(t) ==
    IF t[1] = "-" THEN 0 - ParseInt(Tail(t))
    ELSE IF t[1] = "+" THEN ParseInt(Tail(t)) ELSE ParseInt(t)

\* The value stored for a field, a text of no character when none is.
Stored(field) ==
    IF call_record # <<>> /\ Lower(field.field_name) \in DOMAIN call_record[1]
    THEN call_record[1][Lower(field.field_name)]
    ELSE <<>>

LastOfItsKey(i) ==
    ~\E j \in DOMAIN CallFields :
        /\ j > i
        /\ CallFields[j].data_type \in {"A", "D"}
        /\ Lower(CallFields[j].field_name) = Lower(CallFields[i].field_name)

\* C22: parse_line returns nothing for a record name that is not in the
\* index.  Otherwise it returns a record whose keys are the lower-cased
\* names of the Alpha and Decimal fields, and an Alpha field stores, in
\* declaration order (a later field of the same key replaces an earlier
\* one), the trimmed text of its columns start..end, or the empty text when
\* the line ends before column end, however much of the field it holds.
C22_DecodeFieldByField ==
    call_pc = "returned" =>
        /\ call_name \notin DOMAIN schemas => call_record = <<>>
        /\ call_name \in DOMAIN schemas =>
              /\ call_record # <<>>
              /\ DOMAIN call_record[1] =
                    {Lower(CallFields[i].field_name) :
                       i \in {j \in DOMAIN CallFields :
                                CallFields[j].data_type \in {"A", "D"}}}
              /\ \A i \in DOMAIN CallFields :
                    (CallFields[i].data_type = "A" /\ LastOfItsKey(i))
                    => Stored(CallFields[i]) = Columns(CallFields[i])

\* A line that ends inside an Alpha field, after a character of it, has
\* been decoded and the field is empty.
C22_Witness ==
    /\ CallDecodes
    /\ \E i \in DOMAIN CallFields :
          /\ CallFields[i].data_type = "A" /\ LastOfItsKey(i)
          /\ HasSpan(CallFields[i])
          /\ CallFields[i].start_pos <= Len(call_line)
          /\ CallFields[i].end_pos > Len(call_line)
          /\ call_line[CallFields[i].start_pos] \notin WS
          /\ Stored(CallFields[i]) = <<>>

\* The line of a call of identify_record_type: whether it starts with the
\* padding of eight spaces, and whether its first character that is no
\* whitespace is the file-end character.
Padded == Len(call_line) >= 8 /\ \A i \in 1..8 : call_line[i] = " "

EndMarked ==
    \E i \in DOMAIN call_line :
        /\ call_line[i] = "]"
        /\ \A j \in 1..(i - 1) : call_line[j] \in WS

\* C23: identify_record_type applies its rules in this order: a line of
\* fewer than 8 characters has no type; else a line that starts with the
\* eight spaces is the header marker; else a line whose trimmed content
\* starts with "]" is the end marker; else column 8 decides, "0" the
\* header type, "1" the purchase-order type, "2" the detail type, and any
\* other character no type.
C23_ClassifyInOrder ==
    call_pc = "returned" =>
        /\ Len(call_line) < 8 => call_type = "None"
        /\ (Len(call_line) >= 8 /\ Padded) => call_type = "FILE_HEADER"
        /\ (Len(call_line) >= 8 /\ ~Padded /\ EndMarked)
              => call_type = "END_MARKER"
        /\ (Len(call_line) >= 8 /\ ~Padded /\ ~EndMarked) =>
              /\ call_line[8] = "0" => call_type = "INVHDR,X"
              /\ call_line[8] = "1" => call_type = "INVPOR,X"
              /\ call_line[8] = "2" => call_type = "INVDTL"
              /\ call_line[8] \notin {"0", "1", "2"} => call_type = "None"

\* A line with "]" as its first character and "2" in column 8 has been
\* classified, as the end marker.
C23_Witness ==
    /\ call_pc = "returned"
    /\ Len(call_line) >= 8
    /\ call_line[1] = "]"
    /\ call_line[8] = "2"
    /\ call_type = "END_MARKER"

\* The values a test places in the fields, texts in Alpha fields and
\* numbers in Decimal fields, and what it writes for the k-th of them: the
\* text from the first column of the field on, the digits of the number,
\* without its decimal point, up to the last column.
KnownTexts == <<<<>>, <<"A">>, <<"A", " ", "B">>, <<"I", "N", "V", "0", "0", "1">>>>

KnownNumbers == <<0, 7, 1234>>

Fits(field, k) ==
    LET width == field.end_pos - field.start_pos + 1
    IN IF field.data_type = "D"
       THEN k \in DOMAIN KnownNumbers /\ Len(IntToStr(KnownNumbers[k])) <= width
       ELSE k \in DOMAIN KnownTexts /\ Len(KnownTexts[k]) <= width

Placed(field, k) ==
    LET width == field.end_pos - field.start_pos + 1
        digits == IntToStr(KnownNumbers[k])
    IN IF field.data_type = "D"
       THEN [i \in 1..(width - Len(digits)) |-> "0"] \o digits
       ELSE KnownTexts[k] \o [i \in 1..(width - Len(KnownTexts[k])) |-> " "]

\* The ways to give every field of the layout a known value.
Placements ==
    {a \in [DOMAIN CallFields -> DOMAIN KnownTexts \cup DOMAIN KnownNumbers] :
        \A i \in DOMAIN CallFields : Fits(CallFields[i], a[i])}

SyntheticLine(a) ==
    LineOf(CallFields, [i \in DOMAIN CallFields |-> Placed(CallFields[i], a[i])])

\* The layout has known ranges that do not overlap.
KnownDisjointSpans ==
    /\ \A i \in DOMAIN CallFields :
          HasSpan(CallFields[i]) /\ CallFields[i].data_type \in {"A", "D"}
    /\ \A i, j \in DOMAIN CallFields :
          i < j => \/ CallFields[i].end_pos < CallFields[j].start_pos
                   \/ CallFields[j].end_pos < CallFields[i].start_pos

DistinctKeys ==
    \A i, j \in DOMAIN CallFields :
        i # j => Lower(CallFields[i].field_name) # Lower(CallFields[j].field_name)

\* Every field of the decoded record has the value that was placed: the
\* text, or the number over 10^decimals.
GivesBack(a) ==
    \A i \in DOMAIN CallFields :
        LET field == CallFields[i]
        IN /\ Lower(field.field_name) \in DOMAIN call_record[1]
           /\ field.data_type = "A" => Stored(field) = KnownTexts[a[i]]
           /\ field.data_type = "D" =>
                 /\ Stored(field).num * Exp10(field.decimals)
                      = KnownNumbers[a[i]] * Stored(field).den
                 /\ Stored(field).den = Exp10(field.decimals)

\* C24: round trip.  For every layout whose fields have known ranges that
\* do not overlap, decoding the line that holds a known value in the
\* columns of each field gives every value back.
C24_RoundTrip ==
    (CallDecodes /\ KnownDisjointSpans) =>
        \A a \in Placements : call_line = SyntheticLine(a) => GivesBack(a)

\* C24 as amended: the same for every layout whose fields, besides, have
\* names that differ when lower-cased.
C24_RoundTripOfDistinctNames ==
    (CallDecodes /\ KnownDisjointSpans /\ DistinctKeys) =>
        \A a \in Placements : call_line = SyntheticLine(a) => GivesBack(a)

\* The line with "INV001" in columns 1-6, 1234 in columns 10-14 and 7 in
\* columns 15-17 has been decoded with the layout of those three fields.
C24_Witness ==
    /\ CallDecodes /\ KnownDisjointSpans /\ DistinctKeys
    /\ Len(CallFields) = 3
    /\ \E a \in Placements :
          /\ KnownTexts[a[1]] = <<"I", "N", "V", "0", "0", "1">>
          /\ KnownNumbers[a[2]] = 1234
          /\ KnownNumbers[a[3]] = 7
          /\ call_line = SyntheticLine(a)
          /\ GivesBack(a)

\* The reasons fetch_ftp_file gives for a failure of the transport.
TransportReasons ==
    {"Error connecting to FTP", "Error logging into FTP",
     "Error retrieving file from FTP"}

\* C25: when the downloaded file has zero bytes it is deleted from the
\* working directory before any file is processed, the retrieval fails
\* with the reason of an empty file, which is none of the reasons of a
\* transport failure and is what the status file is given, and the file is
\* neither decoded nor counted.
C25_EmptyDownloadIsAFailureOfItsOwn ==
    (run.req # 0 /\ run.fetch = "empty") =>
        /\ work[run.branch][Target] = "absent"
        /\ Target \notin run.listed /\ Target \notin run.decoded
        /\ ~run.download_file
        /\ run.msg = "Got an zero sized file."
        /\ run.msg \notin TransportReasons
        /\ run.error # "transport"
        /\ (pc[run.req] = "files" /\ run.processed_count = 0)
              => status[run.branch] = run.msg

\* C26: when an unlink of the oldest archive file fails during a pruning,
\* the loop stops there: the files the call deleted are the ones it had
\* deleted before the failure, each older than every file left, the count
\* is still above the cap (no second attempt, no other file deleted), and
\* the run goes on with no exception: the file counts as processed and the
\* task stays in its loop.
C26_UnlinkFailureEndsPruningOnly ==
    [][(run'.cleanup = "error" /\ run'.details # run.details)
         => LET b == run.branch
                deleted == archive[b] \ archive'[b]
            IN /\ archive'[b] \subseteq archive[b]
               /\ \A d \in deleted, f \in archive'[b] : Older(d, f)
               /\ Cardinality(archive'[b]) > max_archive_files
               /\ run'.error = "none"
               /\ run'.processed_count = run.processed_count + 1
               /\ pc' = pc
               /\ pc'[run.req] = "files"]_vars

\* A pruning failed at its second unlink, and the run ended with its status.
C26_Witness ==
    /\ run.req # 0
    /\ run.cleanup = "error"
    /\ Cardinality(archive[run.branch]) < Cardinality(ArchiveSeed)
    /\ Cardinality(archive[run.branch]) > max_archive_files
    /\ pc[run.req] = "done"
    /\ status[run.branch] = "OK"

\* The line a step of parse_content reads.
ReadsLine == Len(content') = Len(content) + 1

LineRead == Chars(content'[Len(content')])

OpenFields(st) ==
    IF st.current_record = <<>> THEN <<>> ELSE st.current_record[1].fields

OpenName(st) ==
    IF st.current_record = <<>> THEN <<>> ELSE st.current_record[1].record_name

\* C27: a named declaration read while a record with a field is open
\* appends that record to the end of the output and begins a record of
\* the declared name without fields; no other line adds a record to the
\* output or changes one in it, so the output is in the order of the
\* declarations; a valid field line adds its field to the end of the open
\* record, that of the nearest named declaration before it, and no other
\* line changes the fields or the name of the open record.
C27_RecordsInDeclarationOrder ==
    [][ReadsLine =>
         IF IsNamedDeclaration(LineRead)
         THEN /\ parser'.records =
                    IF OpenFields(parser) # <<>>
                    THEN Append(parser.records, parser.current_record[1])
                    ELSE parser.records
              /\ OpenName(parser') = DeclaredName(LineRead)
              /\ OpenFields(parser') = <<>>
         ELSE /\ parser'.records = parser.records
              /\ OpenName(parser') = OpenName(parser)
              /\ OpenFields(parser') =
                    IF IsValidFieldLine(LineRead) /\ parser.current_record # <<>>
                    THEN Append(OpenFields(parser),
                                FieldOf(CodePart(LineRead),
                                        CommentPart(LineRead))[1])
                    ELSE OpenFields(parser)]_vars

\* Two records with a field each have been closed by later declarations,
\* in the order of their declarations, and a third record is open.
C27_Witness ==
    /\ Len(parser.records) = 2
    /\ parser.records[1].record_name = <<"I", "N", "V", "D", "T", "L">>
    /\ parser.records[2].record_name = <<"I", "N", "V", "H", "D", "R", ",", "X">>
    /\ parser.current_record # <<>>
    /\ parser.current_record[1].record_name # parser.records[2].record_name

\* C28: after any lines, every record of the parser's output has at least
\* one field, in the list the parser keeps, in the list parse_content
\* returns and in the list to_json writes at the end of the input.
C28_NoRecordWithoutField ==
    /\ \A k \in DOMAIN parser.records : parser.records[k].fields # <<>>
    /\ returned # <<>> =>
          \A k \in DOMAIN returned[1] : returned[1][k].fields # <<>>

\* A declaration without a field line was followed by another declaration,
\* the text ended on a declaration without a field line, and the output
\* is the one record that has a field.
C28_Witness ==
    /\ content = <<"RECORD INVHDR,X", "RECORD INVDTL ; DEVNO=12",
                   "\tIVHNUM ,A6  ; 001-006", "RECORD INVHDR,X">>
    /\ returned # <<>>
    /\ Len(returned[1]) = 1
    /\ returned[1][1].record_name = <<"I", "N", "V", "D", "T", "L">>
    /\ parser.current_record # <<>>
    /\ parser.current_record[1].fields = <<>>

\* The field the call added to the open record, <<>> when it added none.
FieldAdded ==
    IF parser.current_record = <<>> THEN <<>>
    ELSE parser.current_record[1].fields

\* C29: for a field line whose type specification is leading digits, a
\* letter A, D or X and trailing digits, read while a record is open: with
\* leading digits the length is their number and the scale is the number
\* of the trailing digits for D and 0 for A and X; without leading digits
\* the length is the number of the trailing digits and the scale is 0.
C29_LengthAndScale ==
    (call_pc = "returned" /\ parser.current_record # <<>>) =>
        \A name \in {<<>>, <<"F", "L", "D">>}, lead \in -1..12,
           letter \in {"A", "D", "X"}, trail \in 0..10,
           tail \in {<<>>, Chars("; 001-006 note")} :
           call_line = FieldLine(name, lead, letter, trail, tail) =>
              /\ Len(FieldAdded) = 1
              /\ FieldAdded[1].data_type = letter
              /\ FieldAdded[1].length = IF lead >= 0 THEN lead ELSE trail
              /\ FieldAdded[1].decimals =
                    IF lead >= 0 /\ letter = "D" THEN trail ELSE 0

\* The line "FLD ,5D2" has been read into an open record.
C29_Witness ==
    /\ call_pc = "returned"
    /\ call_line = FieldLine(<<"F", "L", "D">>, 5, "D", 2, <<>>)
    /\ Len(FieldAdded) = 1
    /\ FieldAdded[1].length = 5
    /\ FieldAdded[1].decimals = 2

\* The field lines without a comma or with a type specification that the
\* pattern does not match.
SkippedFieldLines == {"\tIVHBAD A6", "\tIVHBAD ,Q6"}

IsKept(line) == line \notin SkippedFieldLines

\* C30: a field line with no comma, or with a type specification that
\* does not match, leaves the parser as it was: the open record, its
\* fields and the output are the same after the line as before it; and
\* after any line the parser is where the same text without those lines
\* leaves it, so the lines that follow are parsed as usual.
C30_BadFieldLineSkipped ==
    [][ReadsLine =>
         /\ content'[Len(content')] \in SkippedFieldLines => parser' = parser
         /\ parser' = ParseFrom(ParserStart, SelectSeq(content', IsKept), 1)
      ]_vars

\* A field line without a comma and one with a type specification that
\* does not match were read between two field declarations, and the open
\* record has the two fields.
C30_Witness ==
    /\ content = <<"RECORD INVHDR,X", "\tIVHNUM ,A6  ; 001-006", "\tIVHBAD A6",
                   "\tIVHBAD ,Q6", "\tIVHNUM ,A6  ; 001-006">>
    /\ parser.records = <<>>
    /\ parser.current_record # <<>>
    /\ Len(parser.current_record[1].fields) = 2

\* A stored row without its column updated_at.
Values(r) == [c \in DOMAIN r \ {"updated_at"} |-> r[c]]

NoDuplicate(table, key) ==
    \A r1, r2 \in table : KeyOf(r1, key) = KeyOf(r2, key) => r1 = r2

\* The rows of the table are the parameters of the last decoded record of
\* each key.
LatestValues(table, rows, key) ==
    {Values(r) : r \in table} =
        {rows[i] : i \in {j \in DOMAIN rows :
                            \A k \in (j + 1)..Len(rows) :
                               KeyOf(rows[k], key) # KeyOf(rows[j], key)}}

DecodedHeaders ==
    [i \in DOMAIN file_state.results.headers |->
        HeaderRow(file_state.results.headers[i], 1)]

DecodedDetails ==
    [i \in DOMAIN file_state.results.details |->
        DetailRow(file_state.results.details[i], 1)]

LoadedTwice == load_pc = <<2, "done">>

\* C31: decoding a data file twice and upserting its headers and details
\* twice leaves the two tables row for row as decoding and upserting once
\* left them, and no two rows of a table have one natural key.
C31_Idempotence ==
    LoadedTwice =>
        /\ invoice_headers = stored_once.headers
        /\ invoice_details = stored_once.details
        /\ NoDuplicate(invoice_headers, HeaderKey)
        /\ NoDuplicate(invoice_details, DetailKey)

\* C31 as amended: the second decoding and upserting leaves the rows of
\* the first with the same values in every column but updated_at; at any
\* time no two rows of a table have one natural key, and after a load the
\* values of a row are those of the last decoded record of its key.
C31_IdempotenceOfValues ==
    /\ NoDuplicate(invoice_headers, HeaderKey)
    /\ NoDuplicate(invoice_details, DetailKey)
    /\ LoadedTwice =>
          /\ {Values(r) : r \in invoice_headers} =
                {Values(r) : r \in stored_once.headers}
          /\ {Values(r) : r \in invoice_details} =
                {Values(r) : r \in stored_once.details}
          /\ LatestValues(invoice_headers, DecodedHeaders, HeaderKey)
          /\ LatestValues(invoice_details, DecodedDetails, DetailKey)

\* A file with two details of one key has been loaded twice: the table
\* has fewer rows than the file has details.
C31_Witness ==
    /\ LoadedTwice
    /\ invoice_headers # {}
    /\ invoice_details # {}
    /\ Cardinality(invoice_details) < Len(file_state.results.details)
    /\ Cardinality(invoice_details) = Cardinality(stored_once.details)

\* C32: for every sync request the key the endpoints look up for the text
\* of the branch number is the key the background task of that branch
\* acquires, so a request is answered "locked" whenever the task of its
\* branch is inside its section.
C32_EndpointKeyIsTaskKey ==
    \A r \in Requests :
       pc[r] # "idle" =>
          /\ EndpointKey(reqText[r]) = TaskKey(ToInt(reqText[r]))
          /\ (/\ run.req # 0 /\ run.req # r
              /\ run.branch = ToInt(reqText[r])
              /\ locked(keyed_semaphores, TaskKey(run.branch))
              /\ pc[r] \in {"queued", "rejected"}
              /\ pc[run.req] \notin {"done", "failed", "busy", "sem"})
             => reqResult[r] = "locked"

\* C33: the directories of a source are created only by a run that holds
\* the slot of the source: at every step that changes the directories of a
\* branch, the slot of that branch is already held by the run of the step.
C33_DirectoriesOnlyUnderSlot ==
    [][\A b \in Branches :
          dirs'[b] # dirs[b] =>
             /\ run.req # 0 /\ run.branch = b
             /\ TaskKey(b) \in DOMAIN keyed_semaphores
             /\ locked(keyed_semaphores, TaskKey(b))]_vars

\* The fields of the layout that store a value: Alpha and Decimal.
KeyedFields == {j \in DOMAIN CallFields : CallFields[j].data_type \in {"A", "D"}}

\* The name a filler field in columns start..end is given, lower-cased.
FillerKey(field) ==
    <<"f", "i", "l", "l", "e", "r", "_">> \o IntToStr(field.start_pos)
       \o <<"_">> \o IntToStr(field.end_pos)

\* C34: the keys of a decoded record are exactly the lower-cased names of
\* the Alpha and Decimal fields of the layout; an Overlay field adds no
\* key; a filler field is stored under its synthesized name; of two fields
\* with one lower-cased name the value kept is the one the later field
\* decodes.
C34_KeysOfDecodedRecord ==
    CallDecodes =>
        /\ DOMAIN call_record[1] =
              {Lower(CallFields[j].field_name) : j \in KeyedFields}
        /\ \A i \in DOMAIN CallFields :
              (/\ CallFields[i].data_type = "X"
               /\ \A j \in KeyedFields :
                     Lower(CallFields[j].field_name)
                        # Lower(CallFields[i].field_name))
              => Lower(CallFields[i].field_name) \notin DOMAIN call_record[1]
        /\ \A i \in KeyedFields :
              Lower(CallFields[i].field_name) = FillerKey(CallFields[i])
              => FillerKey(CallFields[i]) \in DOMAIN call_record[1]
        /\ \A i, j \in KeyedFields :
              (/\ i < j /\ LastOfItsKey(j)
               /\ Lower(CallFields[i].field_name)
                     = Lower(CallFields[j].field_name))
              => Stored(CallFields[j]) =
                    DecodeFields(EmptyDict, call_line, <<CallFields[j]>>, 1)
                       [Lower(CallFields[j].field_name)]

\* A line has been decoded with a layout that has two Alpha fields of one
\* lower-cased name, the columns of the two hold different texts and the
\* record has the text of the later field.
C34_Witness ==
    /\ CallDecodes
    /\ \E i, j \in KeyedFields :
          /\ i < j /\ LastOfItsKey(j)
          /\ CallFields[i].field_name # CallFields[j].field_name
          /\ Lower(CallFields[i].field_name) = Lower(CallFields[j].field_name)
          /\ Columns(CallFields[i]) # <<>>
          /\ Columns(CallFields[j]) # <<>>
          /\ Columns(CallFields[i]) # Columns(CallFields[j])
          /\ Stored(CallFields[j]) = Columns(CallFields[j])
          /\ Cardinality(DOMAIN call_record[1]) = 1

\* C35: pruning ends without raising: no step of a call raises, and every
\* turn of the loop either deletes one file, which lowers the file count,
\* or leaves the loop on a deletion failure; also when the creation time of
\* a file cannot be read or the archive path is no directory.
C35_PruningEndsWithoutRaising ==
    [][/\ cleanup_pc' \in {"start", "loop", "returned"}
       /\ (cleanup_pc = "loop" /\ found[1] > archive_count) =>
             \/ /\ Cardinality(archive_dir') = Cardinality(archive_dir) - 1
                /\ found'[1] < found[1]
             \/ cleanup_pc' = "returned" /\ cleanup_error']_vars

====
